---- MODULE Spec2Model ----
(***************************************************************************)
(* A model of the battery-admin dashboard: the Firestore / Supabase        *)
(* collections the page components read and write, and the components'     *)
(* state (React useState / useRef cells) together with the position of     *)
(* every asynchronous handler between its awaits.                          *)
(*                                                                         *)
(* Geography is abstracted to one dimension: a position is an integer      *)
(* number of kilometres along a line, distanceBetween is the absolute      *)
(* difference, and a geohash is the index of the CellKm-wide cell a        *)
(* position falls in.  The vendor functions (geofire-common) are not part  *)
(* of the repository; what matters for the components is that the bounds   *)
(* cover the search disc and over-approximate it.                          *)
(***************************************************************************)
EXTENDS Integers, Sequences, FiniteSets, TLC

VARIABLES
    \* ---- backend ----
    companyProfiles,   \* Firestore collection companyProfiles: set of documents
    locations,         \* Firestore subcollections companyProfiles/{id}/locations
    users,             \* Firestore collection users
    mapData,           \* Firestore collection mapData (job postings)
    nextId,            \* the next auto-generated document id (addDoc)
    now,               \* the instant new Date() returns
    \* ---- MapView ----
    windowGoogle,      \* window.google is defined
    mvMounted,         \* MapView is mounted and its mount effects have run
    scriptPending,     \* the Google Maps script tag is loading
    mapLoaded,         \* useState mapLoaded
    initEffectPending, \* the [mapLoaded] effect is scheduled for the last commit
    googleMapRef,      \* googleMapRef.current holds a map instance
    searchTerm,        \* useState searchTerm
    loading,           \* useState loading
    isLoading,         \* useState isLoading
    displayLocations,  \* useState displayLocations
    jobs,              \* useState jobs
    \* ---- MapView.getData (one invocation) ----
    gdPc,              \* position of getData between its awaits
    center,            \* the argument of the running / last getData
    locQueries,        \* locationPromises: one entry per issued query
    matchedPairs,      \* matchedPairs
    uniqueCompanyIds,  \* uniqueCompanyIds
    companyFetches,    \* companyDocPromises: one entry per issued getDoc
    jobQueries,        \* jobPromises
    gdErrors,          \* number of console.error calls of getData
    \* ---- UserList (Supabase) ----
    usersTable,        \* Supabase table users
    usMounted,         \* the component is mounted and its effect has run
    usSearch,          \* useState search
    usUsers,           \* useState users
    usLoading,         \* useState loading
    usError,           \* useState error is non-null
    usRequests,        \* the queries fetchUsers has issued, in order
    usLastData,        \* the request whose data arrived last (0: none yet)
    \* ---- the Firestore admin pages (one route is mounted at a time) ----
    page,              \* the route shown
    clCompanies,       \* CompanyList: useState companies (their ids)
    ccExistingProfile, \* CreateCompany: existingProfile (its id, 0: null)
    ccExistingCreatedAt, \* CreateCompany: existingProfile.createdAt (0: undefined)
    ccExistingLocations, \* CreateCompany: existingLocations (their ids)
    ccName,            \* CreateCompany: formData.companyName
    ccAddress,         \* CreateCompany: address is not empty
    ccCoordsSet,       \* CreateCompany: selectedCoords is not null
    ccPc,              \* CreateCompany: position of handleSubmit
    ccCompanyId,       \* CreateCompany.handleSubmit: companyId
    ccNewCode,         \* CreateCompany.handleSubmit: newReferralCode
    ccReferralCode,    \* CreateCompany: useState referralCode
    ccError,           \* CreateCompany: error is not null
    ccSuccess,         \* CreateCompany: useState success
    ccLoading,         \* CreateCompany: useState loading
    llLocations,       \* LocationList: useState locations
    clocCompanies,     \* CreateLocation: useState companies (their ids)
    ulUsers,           \* UserList: useState users
    ulCompanies,       \* UserList: useState companies (id and companyName)
    ulSelectedUser,    \* UserList: selectedUser (its id, 0: null)
    cuCompanyProfiles, \* CreateUser: useState companyProfiles (their ids)
    jlJobs,            \* JobsList: useState jobs (id and the three names)
    jlSelectedJob,     \* JobsList: selectedJob (its id, 0: null)
    jlLoading,         \* JobsList: useState loading, once mounted
    clLoading,         \* CompanyList: useState loading (fetchCompanies is running)
    clDeletes,         \* CompanyList: the handleDeleteCompany calls awaiting deleteDoc
    \* ---- EventList (Supabase) ----
    eventsTable,       \* Supabase table Events (the ids of its rows)
    evMounted,         \* EventList is mounted and its mount effect has run
    evEvents,          \* useState events (their ids)
    evLoading,         \* useState loading
    evError,           \* useState error is non-null
    evRequests,        \* the selects fetchEvents has issued, in order
    evSelectedEventId, \* selectedEventId (0: null); the edit dialog is open
    evSearchTerm,      \* useState searchTerm
    evFilters,         \* useState filters: [type, athleteId, day]
    evPage,            \* useState page
    evRowsPerPage,     \* useState rowsPerPage (desktop layout: isMobile is false)
    \* ---- the FTO pages (Supabase) ----
    ftos,              \* Supabase table Ftos: rows [id, active]
    ftoNextId,         \* the id the next inserted row gets
    ftoPage,           \* which FTO component is mounted: "create" or "list"
    flFtos,            \* FTOList: useState ftos (their ids)
    cfActive,          \* CreateFTO: formik.values.active
    cfActiveFtoExists, \* CreateFTO: useState activeFtoExists
    cfCheckPending,    \* CreateFTO: checkActiveFTO is running
    cfPc,              \* CreateFTO: position of onSubmit
    cfFtosAtSubmit,    \* CreateFTO: the Ftos table when onSubmit was last called
                       \* (history; the code keeps no such copy)
    efFtoId,           \* FTOList.selectedFtoId (0: null); EditFTO is mounted
    efLoaded,          \* EditFTO: fto is not null
    efActive,          \* EditFTO: fto.active
    efDataPending,     \* EditFTO: fetchFTOData is running
    efCheckPending,    \* EditFTO: checkOtherActiveFTOs is running
    efOtherActiveFtoExists, \* EditFTO: useState otherActiveFtoExists
    efPc,              \* EditFTO: position of handleSubmit
    \* ---- AddressAutocomplete ----
    aaMounted,         \* the component is mounted and its effects have run
    aaQuery,           \* useState query
    aaPredictions,     \* useState predictions (their descriptions)
    aaLoading,         \* useState loading
    aaError,           \* useState error is not ''
    aaTimer,           \* ms until the pending setTimeout is due (-1: no timer)
    aaUnchangedFor,    \* ms since query last changed, counted up to the delay
    aaRequests,        \* the getPlacePredictions calls issued, in order
    aaGeocodePending,  \* a geocoder.geocode call has not answered yet
    \* ---- CreateEvent and EditEvent (one of them is mounted at a time) ----
    eventFields,       \* Supabase table Events: the fields of its rows, by id
    evfNextId,         \* the id the next inserted event row gets
    evfForm,           \* "none", "create" (CreateEvent) or "edit" (EditEvent)
    evfLoading,        \* EditEvent: useState loading
    evfError,          \* EditEvent: useState error is not null
    evfAthleteTokens,  \* CreateEvent: athleteTokens; EditEvent: prop athletes
    evfAthleteTokenId, \* formik.values.athelete_token_id (0: '')
    evfSelectedAthlete,\* useState selectedAthlete (0: null)
    evfText,           \* formik.values.name and .description are both filled
    evfType,           \* formik.values.type
    evfDay,            \* formik.values.day
    evfContestEndDate, \* formik.values.contest_end_date
    evfVideoUrl,       \* formik.values.video_url
    evfVideoFile,      \* useState videoFile is not null
    evfLiveStreamUrl,  \* formik.values.live_stream_url
    evfPc,             \* position of onSubmit: "form", "upload" or "write"
    evfUploaded        \* onSubmit: videoUrl is the public URL of the upload

dbVars == <<companyProfiles, locations, users, mapData, nextId>>
mvVars == <<windowGoogle, mvMounted, scriptPending, mapLoaded, initEffectPending,
            googleMapRef, searchTerm>>
mvData == <<loading, isLoading, displayLocations, jobs>>
gdVars == <<gdPc, center, locQueries, matchedPairs, uniqueCompanyIds,
            companyFetches, jobQueries, gdErrors>>

usVars == <<usersTable, usMounted, usSearch, usUsers, usLoading, usError,
            usRequests, usLastData>>

ccVars == <<ccExistingProfile, ccExistingCreatedAt, ccExistingLocations, ccName, ccAddress, ccCoordsSet,
            ccPc, ccCompanyId, ccNewCode, ccReferralCode, ccError, ccSuccess,
            ccLoading>>
listVars == <<clCompanies, clLoading, clDeletes, llLocations, clocCompanies, ulUsers, ulCompanies,
              ulSelectedUser, cuCompanyProfiles, jlJobs, jlSelectedJob, jlLoading>>
adVars == <<page, ccVars, listVars>>

\* what the search box, the filters and the pagination controls of EventList set
evViewVars == <<evSearchTerm, evFilters, evPage, evRowsPerPage>>
evVars == <<eventsTable, evMounted, evEvents, evLoading, evError, evRequests,
            evSelectedEventId, evViewVars>>

cfVars == <<cfActive, cfActiveFtoExists, cfCheckPending, cfPc, cfFtosAtSubmit>>
efVars == <<efFtoId, efLoaded, efActive, efDataPending, efCheckPending,
            efOtherActiveFtoExists, efPc>>
ftoVars == <<ftos, ftoNextId, ftoPage, flFtos, cfVars, efVars>>

aaVars == <<aaMounted, aaQuery, aaPredictions, aaLoading, aaError, aaTimer,
            aaUnchangedFor, aaRequests, aaGeocodePending>>

evfVars == <<eventFields, evfNextId, evfForm, evfLoading, evfError, evfAthleteTokens,
             evfAthleteTokenId, evfSelectedAthlete, evfText, evfType, evfDay,
             evfContestEndDate, evfVideoUrl, evfVideoFile, evfLiveStreamUrl, evfPc,
             evfUploaded>>

\* the components added to the model last
restVars == <<aaVars, evfVars>>

vars == <<dbVars, now, mvVars, mvData, gdVars, usVars, adVars, evVars, ftoVars, restVars>>

\* what the actions of MapView leave alone
mvEnv == <<dbVars, now, usVars, adVars, evVars, ftoVars, restVars>>
\* what the actions of the Supabase UserList leave alone
usEnv == <<dbVars, now, mvVars, mvData, gdVars, adVars, evVars, ftoVars, restVars>>
\* what the actions of the Firestore admin pages leave alone
adEnv == <<now, mvVars, mvData, gdVars, usVars, evVars, ftoVars, restVars>>
\* what the actions of EventList leave alone
evEnv == <<now, mvVars, mvData, gdVars, usVars, ftoVars, restVars>>
\* what the actions of the FTO pages leave alone
ftoEnv == <<dbVars, now, mvVars, mvData, gdVars, usVars, adVars, evVars, restVars>>

(***************************************************************************)
(* Bounds of the model.                                                    *)
(***************************************************************************)
\* width of one geohash cell, in km
CellKm == 40
\* console.error calls counted up to this number
MaxErrors == 2
\* the longest search term typed
MaxTermLen == 3
\* the number of user queries one UserList issues
MaxFetches == 3
\* the number of documents added to Firestore
MaxDocs == 2
\* the last instant the clock reaches
MaxInstant == 3
\* the number of event rows CreateEvent inserts
MaxNewEvents == 1
\* the last day of the calendar the date pickers offer
MaxDate == 8

(***************************************************************************)
(* Generic helpers.                                                        *)
(***************************************************************************)
Range(s) == {s[i] : i \in 1..Len(s)}

Abs(x) == IF x < 0 THEN -x ELSE x

Min(a, b) == IF a < b THEN a ELSE b

\* Array.prototype.filter
RECURSIVE SeqFilter(_, _)
SeqFilter(s, keep) ==
    IF s = <<>> THEN <<>>
    ELSE IF Head(s) \in keep
         THEN <<Head(s)>> \o SeqFilter(Tail(s), keep)
         ELSE SeqFilter(Tail(s), keep)

\* Array.from(new Set(s)): first occurrences, in insertion order
RECURSIVE Dedupe(_)
Dedupe(s) ==
    IF s = <<>> THEN <<>>
    ELSE LET rest == Dedupe(SubSeq(s, 1, Len(s) - 1))
             x == s[Len(s)]
         IN IF x \in Range(rest) THEN rest ELSE Append(rest, x)

\* the concatenation of a sequence of sequences
RECURSIVE Flatten(_)
Flatten(ss) == IF ss = <<>> THEN <<>> ELSE Head(ss) \o Flatten(Tail(ss))

(***************************************************************************)
(* The vendor geometry (geofire-common), in the one-dimensional            *)
(* abstraction.                                                            *)
(***************************************************************************)
\* distanceBetween(a, b): the distance in km
distanceBetween(a, b) == Abs(a - b)

\* geohashForLocation(p): the cell of p
geohashForLocation(p) == p \div CellKm

\* geohashQueryBounds(c, radiusInM): one [start, end] pair per cell that
\* meets the disc around c; the cells cover the disc and more
geohashQueryBounds(c, radiusM) ==
    LET rk == (radiusM + 999) \div 1000
        lo == geohashForLocation(c - rk)
        hi == geohashForLocation(c + rk)
    IN [i \in 1..(hi - lo + 1) |-> <<lo + i - 1, lo + i - 1>>]

(***************************************************************************)
(* Firestore reads.                                                        *)
(***************************************************************************)
\* the documents of S as a snapshot ordered by geoHash (ties by id)
RECURSIVE OrderByGeoHash(_)
OrderByGeoHash(S) ==
    IF S = {} THEN <<>>
    ELSE LET first == CHOOSE d \in S : \A e \in S :
                         \/ d.geoHash < e.geoHash
                         \/ (d.geoHash = e.geoHash /\ d.id <= e.id)
         IN <<first>> \o OrderByGeoHash(S \ {first})

\* query(collectionGroup(db,"locations"), orderBy("geoHash"), startAt(b[0]), endAt(b[1]))
LocationRangeQuery(b) ==
    OrderByGeoHash({d \in locations : b[1] <= d.geoHash /\ d.geoHash <= b[2]})

\* getDoc(doc(db, "companyProfiles", id)).exists()
CompanyExists(id) == \E c \in companyProfiles : c.id = id

CompanyDoc(id) == CHOOSE c \in companyProfiles : c.id = id

\* the documents of a set as a snapshot in id order
RECURSIVE OrderById(_)
OrderById(S) ==
    IF S = {} THEN <<>>
    ELSE LET first == CHOOSE d \in S : \A e \in S : d.id <= e.id
         IN <<first>> \o OrderById(S \ {first})

\* query(collection(db,"mapData"), where("companyProfileId","in",chunk))
JobsQuery(chunk) == OrderById({j \in mapData : j.companyProfileId \in Range(chunk)})

(***************************************************************************)
(* MapView.getData                                                         *)
(***************************************************************************)
\* const radiusInM = 50 * 1000
radiusInM == 50000

\* const chunkSize = 10
chunkSize == 10

\* a || 'Unnamed Company'
OrUnnamed(name) == IF name = "" THEN "Unnamed Company" ELSE name

\* the comparison with the kilometres left unconverted
WithinRadius_KmAsMetres(d, c) == distanceBetween(d.pos, c) <= radiusInM

\* if (distanceInM <= radiusInM)
WithinRadius(d, c) == distanceBetween(d.pos, c) * 1000 <= radiusInM

\* the loop over locationSnapshots that builds matchedPairs
MatchedPairsOf(snaps, c) ==
    LET kept(snap) == SeqFilter(snap, {d \in Range(snap) : WithinRadius(d, c)})
        pairs(snap) == [i \in 1..Len(kept(snap)) |->
                          [companyId |-> kept(snap)[i].companyId,
                           location |-> kept(snap)[i]]]
    IN Flatten([k \in 1..Len(snaps) |-> pairs(snaps[k])])

\* the company ids of the pairs, repeats kept
UniqueCompanyIdsOf_NoSet(pairs) == [i \in 1..Len(pairs) |-> pairs[i].companyId]

\* Array.from(new Set(matchedPairs.map(p => p.companyId)))
UniqueCompanyIdsOf(pairs) ==
    Dedupe([i \in 1..Len(pairs) |-> pairs[i].companyId])

\* the chunks of uniqueCompanyIds the job queries are issued for
ChunksOf(ids) ==
    [k \in 1..((Len(ids) + chunkSize - 1) \div chunkSize) |->
        SubSeq(ids, (k - 1) * chunkSize + 1, Min(k * chunkSize, Len(ids)))]

\* companyDataMap: the ids whose fetched snapshot exists
CompanyDataIds(fetches) ==
    {fetches[i].id : i \in {k \in 1..Len(fetches) : fetches[k].exists}}

CompanyDataName(fetches, id) ==
    LET i == CHOOSE k \in 1..Len(fetches) : fetches[k].id = id /\ fetches[k].exists
    IN fetches[i].companyName

\* results, then displayLocs
DisplayLocsOf(pairs, fetches) ==
    LET has == {i \in 1..Len(pairs) : pairs[i].companyId \in CompanyDataIds(fetches)}
        results == SeqFilter([i \in 1..Len(pairs) |-> [idx |-> i, p |-> pairs[i]]],
                             {[idx |-> i, p |-> pairs[i]] : i \in has})
    IN [i \in 1..Len(results) |->
          LET p == results[i].p
              nm == OrUnnamed(CompanyDataName(fetches, p.companyId))
          IN [id |-> <<p.companyId, p.location.id>>,
              locationId |-> p.location.id,
              name |-> nm,
              companyId |-> p.companyId,
              companyName |-> nm,
              pos |-> p.location.pos,
              status |-> "Operational"]]

AllArrived(qs) == \A i \in 1..Len(qs) : qs[i].status = "ok"
SomeFailed(qs) == \E i \in 1..Len(qs) : qs[i].status = "failed"

\* getData(center) up to "await Promise.all(locationPromises)"
GetDataStart(c) ==
    /\ center' = c
    /\ isLoading' = TRUE
    /\ LET bounds == geohashQueryBounds(c, radiusInM)
       IN locQueries' = [i \in 1..Len(bounds) |->
                           [bound |-> bounds[i], status |-> "pending", docs |-> <<>>]]
    /\ matchedPairs' = <<>>
    /\ uniqueCompanyIds' = <<>>
    /\ companyFetches' = <<>>
    /\ jobQueries' = <<>>
    /\ gdPc' = "awaitLocations"
    /\ UNCHANGED <<loading, displayLocations, jobs, gdErrors>>

\* one getDocs(q) of locationPromises settles
LocationQuerySettles(i, ok) ==
    /\ gdPc = "awaitLocations"
    /\ i \in 1..Len(locQueries)
    /\ locQueries[i].status = "pending"
    /\ locQueries' = [locQueries EXCEPT ![i] =
                        IF ok THEN [bound |-> @.bound, status |-> "ok",
                                    docs |-> LocationRangeQuery(@.bound)]
                              ELSE [@ EXCEPT !.status = "failed"]]
    /\ UNCHANGED <<mvEnv, mvVars, mvData>>
    /\ UNCHANGED <<gdPc, center, matchedPairs, uniqueCompanyIds, companyFetches,
                   jobQueries, gdErrors>>

\* the first snapshot to arrive lets the function go on
LocationsReady_FirstArrived ==
    \E i \in 1..Len(locQueries) : locQueries[i].status = "ok"

\* Promise.all(locationPromises) resolves: the snapshots may be filtered
LocationsReady == AllArrived(locQueries)

\* from "await Promise.all(locationPromises)" to "await Promise.all(companyDocPromises)"
FilterAndFetchCompanies ==
    /\ gdPc = "awaitLocations"
    /\ LocationsReady
    /\ LET pairs == MatchedPairsOf([i \in 1..Len(locQueries) |-> locQueries[i].docs],
                                   center)
           ids == UniqueCompanyIdsOf(pairs)
       IN /\ matchedPairs' = pairs
          /\ uniqueCompanyIds' = ids
          /\ companyFetches' = [i \in 1..Len(ids) |->
                                  [id |-> ids[i], status |-> "pending",
                                   exists |-> FALSE, companyName |-> ""]]
    /\ gdPc' = "awaitCompanies"
    /\ UNCHANGED <<mvEnv, mvVars, mvData>>
    /\ UNCHANGED <<center, locQueries, jobQueries, gdErrors>>

\* one getDoc(doc(db,"companyProfiles",id)) settles
CompanyFetchSettles(i, ok) ==
    /\ gdPc = "awaitCompanies"
    /\ i \in 1..Len(companyFetches)
    /\ companyFetches[i].status = "pending"
    /\ companyFetches' = [companyFetches EXCEPT ![i] =
          IF ~ok THEN [@ EXCEPT !.status = "failed"]
          ELSE IF CompanyExists(@.id)
               THEN [id |-> @.id, status |-> "ok", exists |-> TRUE,
                     companyName |-> CompanyDoc(@.id).companyName]
               ELSE [@ EXCEPT !.status = "ok"]]
    /\ UNCHANGED <<mvEnv, mvVars, mvData>>
    /\ UNCHANGED <<gdPc, center, locQueries, matchedPairs, uniqueCompanyIds,
                   jobQueries, gdErrors>>

\* from "await Promise.all(companyDocPromises)" to "await Promise.all(jobPromises)"
JoinAndFetchJobs ==
    /\ gdPc = "awaitCompanies"
    /\ AllArrived(companyFetches)
    /\ LET chunks == ChunksOf(uniqueCompanyIds)
       IN jobQueries' = [k \in 1..Len(chunks) |->
                           [chunk |-> chunks[k], status |-> "pending", docs |-> <<>>]]
    /\ gdPc' = "awaitJobs"
    /\ UNCHANGED <<mvEnv, mvVars, mvData>>
    /\ UNCHANGED <<center, locQueries, matchedPairs, uniqueCompanyIds,
                   companyFetches, gdErrors>>

\* one getDocs(q) of jobPromises settles
JobQuerySettles(i, ok) ==
    /\ gdPc = "awaitJobs"
    /\ i \in 1..Len(jobQueries)
    /\ jobQueries[i].status = "pending"
    /\ jobQueries' = [jobQueries EXCEPT ![i] =
                        IF ok THEN [chunk |-> @.chunk, status |-> "ok",
                                    docs |-> JobsQuery(@.chunk)]
                              ELSE [@ EXCEPT !.status = "failed"]]
    /\ UNCHANGED <<mvEnv, mvVars, mvData>>
    /\ UNCHANGED <<gdPc, center, locQueries, matchedPairs, uniqueCompanyIds,
                   companyFetches, gdErrors>>

\* the rest of the try block, then finally
SetResults ==
    /\ gdPc = "awaitJobs"
    /\ AllArrived(jobQueries)
    /\ displayLocations' = DisplayLocsOf(matchedPairs, companyFetches)
    /\ jobs' = Flatten([k \in 1..Len(jobQueries) |-> jobQueries[k].docs])
    /\ isLoading' = FALSE
    /\ loading' = FALSE
    /\ gdPc' = "done"
    /\ UNCHANGED <<mvEnv, mvVars>>
    /\ UNCHANGED <<center, locQueries, matchedPairs, uniqueCompanyIds,
                   companyFetches, jobQueries, gdErrors>>

\* a variant of the catch block that would empty the lists shown
GetDataCatch_ClearsResults ==
    /\ \/ gdPc = "awaitLocations" /\ SomeFailed(locQueries)
       \/ gdPc = "awaitCompanies" /\ SomeFailed(companyFetches)
       \/ gdPc = "awaitJobs" /\ SomeFailed(jobQueries)
    /\ gdErrors' = Min(gdErrors + 1, MaxErrors)
    /\ isLoading' = FALSE
    /\ loading' = FALSE
    /\ gdPc' = "failed"
    /\ displayLocations' = <<>>
    /\ jobs' = <<>>
    /\ UNCHANGED <<mvEnv, mvVars>>
    /\ UNCHANGED <<center, locQueries, matchedPairs, uniqueCompanyIds,
                   companyFetches, jobQueries>>

\* a rejected Promise.all: catch (console.error), then finally
GetDataCatch ==
    /\ \/ gdPc = "awaitLocations" /\ SomeFailed(locQueries)
       \/ gdPc = "awaitCompanies" /\ SomeFailed(companyFetches)
       \/ gdPc = "awaitJobs" /\ SomeFailed(jobQueries)
    /\ gdErrors' = Min(gdErrors + 1, MaxErrors)
    /\ isLoading' = FALSE
    /\ loading' = FALSE
    /\ gdPc' = "failed"
    /\ UNCHANGED <<mvEnv, mvVars>>
    /\ UNCHANGED <<displayLocations, jobs>>
    /\ UNCHANGED <<center, locQueries, matchedPairs, uniqueCompanyIds,
                   companyFetches, jobQueries>>

(***************************************************************************)
(* MapView: mounting, the Google Maps script, the map-initialisation       *)
(* effect.                                                                 *)
(***************************************************************************)
\* the characters typed into search fields
TermChars == {"a", "B"}

\* center: { lat: 39.8283, lng: -98.5795 }, the origin of the line
DefaultCenter == 0

\* the useState / useRef initial values of MapView
MapViewInitialState ==
    /\ searchTerm = <<>>
    /\ displayLocations = <<>>
    /\ loading = TRUE
    /\ mapLoaded = FALSE
    /\ jobs = <<>>
    /\ isLoading = TRUE
    /\ googleMapRef = FALSE

\* no getData has been invoked
GetDataIdle ==
    /\ gdPc = "idle"
    /\ center = DefaultCenter
    /\ locQueries = <<>>
    /\ matchedPairs = <<>>
    /\ uniqueCompanyIds = <<>>
    /\ companyFetches = <<>>
    /\ jobQueries = <<>>
    /\ gdErrors = 0

\* the element carrying ref={mapRef} is rendered in the "else" branch of
\* {loading || isLoading ? <spinner> : <Box ref={mapRef}>}
MapRefRendered(l, il) == ~(l \/ il)

\* mapRef.current after the last commit
MapRefCurrent == mvMounted /\ MapRefRendered(loading, isLoading)

\* first render, commit, and the two mount effects in their order
MvMount ==
    /\ ~mvMounted
    /\ mvMounted' = TRUE
    /\ IF ~windowGoogle
       THEN \* window.initMap is defined and the script tag appended
            /\ scriptPending' = TRUE
            /\ mapLoaded' = FALSE
            /\ initEffectPending' = FALSE
       ELSE \* setMapLoaded(true): a re-render in which [mapLoaded] changed
            /\ scriptPending' = scriptPending
            /\ mapLoaded' = TRUE
            /\ initEffectPending' = TRUE
    \* the [mapLoaded] effect of the first commit sees mapLoaded = false
    /\ UNCHANGED <<windowGoogle, googleMapRef, searchTerm>>
    /\ UNCHANGED <<mvEnv, mvData, gdVars>>

\* the script has loaded and calls window.initMap
ScriptLoads ==
    /\ scriptPending
    /\ scriptPending' = FALSE
    /\ windowGoogle' = TRUE
    /\ IF mvMounted
       THEN /\ mapLoaded' = TRUE
            /\ initEffectPending' = (~mapLoaded \/ initEffectPending)
       ELSE \* the cleanup replaced initMap by () => {}
            UNCHANGED <<mapLoaded, initEffectPending>>
    /\ UNCHANGED <<mvMounted, googleMapRef, searchTerm>>
    /\ UNCHANGED <<mvEnv, mvData, gdVars>>

\* useEffect(() => { if (mapLoaded && mapRef.current) {...} }, [mapLoaded])
InitMapEffect ==
    /\ mvMounted
    /\ initEffectPending
    /\ initEffectPending' = FALSE
    /\ IF mapLoaded /\ MapRefCurrent
       THEN /\ googleMapRef' = TRUE
            /\ GetDataStart(DefaultCenter)
       ELSE UNCHANGED <<googleMapRef, mvData, gdVars>>
    /\ UNCHANGED <<windowGoogle, mvMounted, scriptPending, mapLoaded, searchTerm>>
    /\ UNCHANGED mvEnv

\* onChange={(e) => setSearchTerm(e.target.value)}: one key stroke
SetSearchTerm(t) ==
    /\ mvMounted
    /\ t # searchTerm
    /\ searchTerm' = t
    /\ UNCHANGED <<windowGoogle, mvMounted, scriptPending, mapLoaded,
                   initEffectPending, googleMapRef>>
    /\ UNCHANGED <<mvEnv, mvData, gdVars>>

\* the values one key stroke can turn the term into
KeyStrokes(t) ==
    {Append(t, ch) : ch \in IF Len(t) < MaxTermLen THEN TermChars ELSE {}}
      \cup (IF t = <<>> THEN {} ELSE {SubSeq(t, 1, Len(t) - 1)})

\* navigation away: the effect cleanup runs and the state is dropped; a later
\* mount starts from the useState initial values
MvUnmount ==
    /\ mvMounted
    /\ gdPc \in {"idle", "done", "failed"}
    /\ mvMounted' = FALSE
    /\ initEffectPending' = FALSE
    /\ searchTerm' = <<>>
    /\ displayLocations' = <<>>
    /\ loading' = TRUE
    /\ mapLoaded' = FALSE
    /\ jobs' = <<>>
    /\ isLoading' = TRUE
    /\ googleMapRef' = FALSE
    /\ UNCHANGED <<windowGoogle, scriptPending>>
    /\ UNCHANGED <<mvEnv, gdVars>>

(***************************************************************************)
(* The backend contents the read-only components are checked against.      *)
(***************************************************************************)
\* the instant at which the documents found in the backend were written
FirstInstant == 1

CompanyUniverse ==
    {[id |-> 1, companyName |-> "Acme", referralCode |-> <<>>,
      createdAt |-> FirstInstant, updatedAt |-> FirstInstant],
     [id |-> 2, companyName |-> "", referralCode |-> <<>>,
      createdAt |-> FirstInstant, updatedAt |-> FirstInstant],
     [id |-> 3, companyName |-> "Volt", referralCode |-> <<>>,
      createdAt |-> FirstInstant, updatedAt |-> FirstInstant]}

LocationDoc(i, c, p) ==
    [id |-> i, companyId |-> c, pos |-> p, geoHash |-> geohashForLocation(p)]

LocationUniverse ==
    {LocationDoc(11, 1, 30), LocationDoc(12, 1, 51),
     LocationDoc(13, 2, 50), LocationDoc(14, 3, -70)}

JobUniverse ==
    {[id |-> 21, companyProfileId |-> 1, locationId |-> 11, userId |-> 0],
     [id |-> 22, companyProfileId |-> 3, locationId |-> 14, userId |-> 0]}

\* the centers getData is invoked for
Centers == {DefaultCenter, 40}

SomeBackend ==
    /\ companyProfiles \in SUBSET CompanyUniverse
    /\ locations \in SUBSET LocationUniverse
    /\ users = {}
    /\ mapData = JobUniverse
    /\ nextId = 100

(***************************************************************************)
(* UserList (Supabase): the search box and the fetchUsers effect.          *)
(***************************************************************************)
\* String.prototype.toLowerCase on one character
LowerChar(ch) == IF ch = "A" THEN "a" ELSE IF ch = "B" THEN "b" ELSE ch

ToLower(str) == [i \in 1..Len(str) |-> LowerChar(str[i])]

\* str contains sub (String.prototype.includes, SQL LIKE '%sub%')
Includes(str, sub) ==
    \E k \in 0..(Len(str) - Len(sub)) : SubSeq(str, k + 1, k + Len(sub)) = sub

\* the rows of the table, and the values the search box takes
UserRows ==
    {[id |-> 1, email |-> <<"a", "b">>],
     [id |-> 2, email |-> <<"B", "b">>],
     [id |-> 3, email |-> <<"c">>]}

SearchValues == {<<>>, <<"a">>, <<"B">>}

\* supabase.from('users').select(...), with .ilike('email', `%${search}%`)
\* when search is not empty
UsersQuery(term) ==
    OrderById(IF term = <<>> THEN usersTable
              ELSE {u \in usersTable : Includes(ToLower(u.email), ToLower(term))})

UserListIdle ==
    /\ usMounted = FALSE
    /\ usSearch = <<>>
    /\ usUsers = <<>>
    /\ usLoading = FALSE
    /\ usError = FALSE
    /\ usRequests = <<>>
    /\ usLastData = 0

\* fetchUsers up to its await, for the current value of search
FetchUsersStart(term) ==
    /\ Len(usRequests) < MaxFetches
    /\ usLoading' = TRUE
    /\ usError' = FALSE
    /\ usRequests' = Append(usRequests, [term |-> term, status |-> "pending"])

\* mount: the [search] effect runs for the initial search ''
UsMount ==
    /\ ~usMounted
    /\ usMounted' = TRUE
    /\ FetchUsersStart(usSearch)
    /\ UNCHANGED <<usersTable, usSearch, usUsers, usLastData>>
    /\ UNCHANGED usEnv

\* onChange={(e) => setSearch(e.target.value)}, then the [search] effect
UsSetSearch(t) ==
    /\ usMounted
    /\ t # usSearch
    /\ usSearch' = t
    /\ FetchUsersStart(t)
    /\ UNCHANGED <<usersTable, usMounted, usUsers, usLastData>>
    /\ UNCHANGED usEnv

\* a response is dropped when the search term has changed since its request
ResponseApplied_OnlyCurrent(i) == usRequests[i].term = usSearch

\* whether the response to request i is applied to the users state: always,
\* there is no cancellation and no check against the current term
ResponseApplied(i) == TRUE

\* `const { data, error } = await query` returns for request i:
\* if (error) setError(...); if (data) setUsers(data); setLoading(false)
UsResponse(i, ok) ==
    /\ i \in 1..Len(usRequests)
    /\ usRequests[i].status = "pending"
    /\ usRequests' = [usRequests EXCEPT ![i].status = IF ok THEN "ok" ELSE "error"]
    /\ IF ok /\ ResponseApplied(i)
       THEN /\ usUsers' = UsersQuery(usRequests[i].term)
            /\ usLastData' = i
            /\ UNCHANGED usError
       ELSE /\ usError' = (usError \/ ~ok)
            /\ UNCHANGED <<usUsers, usLastData>>
    /\ usLoading' = FALSE
    /\ UNCHANGED <<usersTable, usMounted, usSearch>>
    /\ UNCHANGED usEnv


(***************************************************************************)
(* The Firestore admin pages: CompanyList, CreateCompany (create and edit  *)
(* route), LocationList, CreateLocation, UserList, CreateUser, JobsList.   *)
(* One route is mounted at a time; a page's state is dropped when the      *)
(* route changes.  A handler with a single await is one action, taken when *)
(* the awaited call settles; CreateCompany.handleSubmit, which awaits      *)
(* twice, is one action per await.                                         *)
(***************************************************************************)
\* const chars = 'ABCDEFGHIJKLMNOPQRSTUVWXYZ0123456789'
chars ==
    <<"A", "B", "C", "D", "E", "F", "G", "H", "I", "J", "K", "L", "M",
      "N", "O", "P", "Q", "R", "S", "T", "U", "V", "W", "X", "Y", "Z",
      "0", "1", "2", "3", "4", "5", "6", "7", "8", "9">>

\* for (let i = 0; i < 8; i++)
ReferralCodeLength == 8

\* the values of Math.floor(Math.random() * chars.length) over the eight
\* iterations of one call, for the runs of Math.random considered
RandomRuns ==
    {[i \in 1..ReferralCodeLength |-> 0],
     [i \in 1..ReferralCodeLength |-> (7 * i) % Len(chars)]}

\* generateReferralCode(), given what Math.random returns
generateReferralCode(run) ==
    [i \in 1..ReferralCodeLength |-> chars[run[i] + 1]]

\* the coordinates the address search yields
FormPos == 30

\* the company names typed into the form
FormNames == {"", "Volt"}

\* the first auto-generated document id
FirstId == 100

CompanyIds == {c.id : c \in companyProfiles}

\* the state of every admin page that is not mounted
CreateCompanyIdle ==
    /\ ccExistingProfile = 0
    /\ ccExistingCreatedAt = 0
    /\ ccExistingLocations = {}
    /\ ccName = ""
    /\ ccAddress = FALSE
    /\ ccCoordsSet = FALSE
    /\ ccPc = "idle"
    /\ ccCompanyId = 0
    /\ ccNewCode = <<>>
    /\ ccReferralCode = <<>>
    /\ ccError = FALSE
    /\ ccSuccess = FALSE
    /\ ccLoading = FALSE

ListsIdle ==
    /\ clCompanies = {}
    /\ clLoading = FALSE
    /\ clDeletes = {}
    /\ llLocations = {}
    /\ clocCompanies = {}
    /\ ulUsers = {}
    /\ ulCompanies = {}
    /\ ulSelectedUser = 0
    /\ cuCompanyProfiles = {}
    /\ jlJobs = {}
    /\ jlSelectedJob = 0
    /\ jlLoading = FALSE

AdminIdle ==
    /\ page = "analytics"
    /\ CreateCompanyIdle
    /\ ListsIdle

\* EventList before it is mounted
EventListIdle ==
    /\ evMounted = FALSE
    /\ evEvents = {}
    /\ evLoading = TRUE
    /\ evError = FALSE
    /\ evRequests = <<>>
    /\ evSelectedEventId = 0
    /\ evSearchTerm = <<>>
    /\ evFilters = [type |-> "", athleteId |-> 0, day |-> -1]
    /\ evPage = 0
    /\ evRowsPerPage = 10

\* CreateFTO as useFormik / useState initialise it
CreateFtoInitialState ==
    /\ cfActive = FALSE
    /\ cfActiveFtoExists = FALSE
    /\ cfCheckPending = FALSE
    /\ cfPc = "idle"
    /\ cfFtosAtSubmit = {}

\* EditFTO while FTOList does not render it
EditFtoClosed ==
    /\ efFtoId = 0
    /\ efLoaded = FALSE
    /\ efActive = FALSE
    /\ efDataPending = FALSE
    /\ efCheckPending = FALSE
    /\ efOtherActiveFtoExists = FALSE
    /\ efPc = "idle"

\* AddressAutocomplete before it is mounted (defaultAddress = '')
AddressAutocompleteIdle ==
    /\ aaMounted = FALSE
    /\ aaQuery = <<>>
    /\ aaPredictions = <<>>
    /\ aaLoading = FALSE
    /\ aaError = FALSE
    /\ aaTimer = -1
    /\ aaUnchangedFor = 0
    /\ aaRequests = <<>>
    /\ aaGeocodePending = FALSE

\* null in a row of the table
Null == "null"
\* a URL typed into a text field, and the public URL of an uploaded file
TypedUrl == "https://typed"
PublicUrl == "https://public"
\* no date: null in a date field
NoDate == -1

\* values of formik's day: null, '', a date string read from a row, or the
\* Date object a picker hands over
NullDay == [kind |-> "null", date |-> NoDate]
EmptyDay == [kind |-> "empty", date |-> NoDate]
StringDay(d) == [kind |-> "string", date |-> d]
DateDay(d) == [kind |-> "date", date |-> d]

\* the id of the first event row CreateEvent inserts
FirstNewEvent == 33

\* no event form is mounted
EventFormsIdle ==
    /\ evfForm = "none"
    /\ evfLoading = FALSE
    /\ evfError = FALSE
    /\ evfAthleteTokens = {}
    /\ evfAthleteTokenId = 0
    /\ evfSelectedAthlete = 0
    /\ evfText = FALSE
    /\ evfType = ""
    /\ evfDay = NullDay
    /\ evfContestEndDate = NoDate
    /\ evfVideoUrl = ""
    /\ evfVideoFile = FALSE
    /\ evfLiveStreamUrl = ""
    /\ evfPc = "form"
    /\ evfUploaded = FALSE

\* the components added to the model last are not in use
RestUnused ==
    /\ AddressAutocompleteIdle
    /\ eventFields = <<>>
    /\ evfNextId = FirstNewEvent
    /\ EventFormsIdle

\* no event or FTO component is in use
OtherPagesUnused ==
    /\ eventsTable = {}
    /\ EventListIdle
    /\ ftos = {}
    /\ ftoNextId = 1
    /\ ftoPage = "none"
    /\ flFtos = {}
    /\ CreateFtoInitialState
    /\ EditFtoClosed

\* a route change: the old page is unmounted and page p mounted, with the
\* state its mount leaves it in (the other pages are at their initial values)
MountPage(p, cl, ep, el, nm, rc, err, ll, cloc, uu, uc, cu, jl) ==
    /\ page' = p
    /\ clCompanies' = cl
    /\ clLoading' = (p = "companies")
    /\ clDeletes' = {}
    /\ ccExistingProfile' = ep
    /\ ccExistingCreatedAt' = IF ep \in CompanyIds THEN CompanyDoc(ep).createdAt ELSE 0
    /\ ccExistingLocations' = el
    /\ ccName' = nm
    /\ ccReferralCode' = rc
    /\ ccError' = err
    /\ ccAddress' = FALSE
    /\ ccCoordsSet' = FALSE
    /\ ccPc' = "idle"
    /\ ccCompanyId' = 0
    /\ ccNewCode' = <<>>
    /\ ccSuccess' = FALSE
    /\ ccLoading' = FALSE
    /\ llLocations' = ll
    /\ clocCompanies' = cloc
    /\ ulUsers' = uu
    /\ ulCompanies' = uc
    /\ ulSelectedUser' = 0
    /\ cuCompanyProfiles' = cu
    /\ jlJobs' = jl
    /\ jlSelectedJob' = 0
    /\ jlLoading' = (p = "jobs")

\* no handler of the mounted page is between two awaits
NoHandlerRunning == ccPc = "idle" /\ clDeletes = {}

\* ---- CompanyList ----
\* route /companies: the mount effect calls fetchCompanies, which sets
\* loading and issues its reads
OpenCompanyList ==
    /\ NoHandlerRunning
    /\ page # "companies"
    /\ MountPage("companies", {}, 0, {}, "", <<>>,
                 FALSE, {}, {}, {}, {}, {}, {})
    /\ UNCHANGED <<dbVars, adEnv>>

\* the reads of fetchCompanies settle: setCompanies(companiesList), or
\* console.error when one of them fails; finally setLoading(false)
FetchCompaniesSettles(ok) ==
    /\ page = "companies"
    /\ clLoading
    /\ clCompanies' = IF ok THEN CompanyIds ELSE clCompanies
    /\ clLoading' = FALSE
    /\ UNCHANGED <<page, ccVars, clDeletes, llLocations, clocCompanies, ulUsers, ulCompanies,
                   ulSelectedUser, cuCompanyProfiles, jlJobs, jlSelectedJob, jlLoading>>
    /\ UNCHANGED <<dbVars, adEnv>>

\* the documents left in Firestore by deleteDoc(doc(db,'companyProfiles',id)):
\* the company document goes, nothing else is touched
DeleteCompanyDoc(id) ==
    /\ companyProfiles' = {c \in companyProfiles : c.id # id}
    /\ UNCHANGED <<locations, users, mapData, nextId>>

\* handleDeleteCompany(id) up to its await; the handler keeps the companies
\* of the render it was created in
HandleDeleteCompany(id) ==
    /\ page = "companies"
    /\ id \in clCompanies
    /\ [id |-> id, companies |-> clCompanies] \notin clDeletes
    /\ clDeletes' = clDeletes \cup {[id |-> id, companies |-> clCompanies]}
    /\ UNCHANGED <<page, ccVars, clCompanies, clLoading, llLocations, clocCompanies, ulUsers,
                   ulCompanies, ulSelectedUser, cuCompanyProfiles, jlJobs, jlSelectedJob, jlLoading>>
    /\ UNCHANGED <<dbVars, adEnv>>

\* deleteDoc of the call d settles: setCompanies(companies.filter(...)), or
\* console.error
DeleteCompanySettles(d, ok) ==
    /\ page = "companies"
    /\ d \in clDeletes
    /\ clDeletes' = clDeletes \ {d}
    /\ IF ok
       THEN /\ DeleteCompanyDoc(d.id)
            /\ clCompanies' = {c \in d.companies : c # d.id}
       ELSE UNCHANGED <<dbVars, clCompanies>>
    /\ UNCHANGED <<page, ccVars, clLoading, llLocations, clocCompanies, ulUsers, ulCompanies,
                   ulSelectedUser, cuCompanyProfiles, jlJobs, jlSelectedJob, jlLoading>>
    /\ UNCHANGED adEnv


\* ---- CreateCompany ----
LocationsOf(cid) == {l \in locations : l.companyId = cid}

\* route /companies/create: nothing is fetched
OpenCreateCompany ==
    /\ NoHandlerRunning
    /\ MountPage("createCompany", {}, 0, {}, "", <<>>, FALSE, {}, {}, {}, {}, {}, {})
    /\ UNCHANGED <<dbVars, adEnv>>

\* route /companies/edit/:id: fetchCompanyProfile; okDoc and okLocs say
\* whether the two reads succeed
OpenEditCompany(id, okDoc, okLocs) ==
    /\ NoHandlerRunning
    /\ IF okDoc /\ id \in CompanyIds
       THEN MountPage("editCompany", {}, id,
                      IF okLocs THEN {l.id : l \in LocationsOf(id)} ELSE {},
                      CompanyDoc(id).companyName, CompanyDoc(id).referralCode,
                      ~okLocs, {}, {}, {}, {}, {}, {})
       ELSE \* 'Company profile not found' / 'Failed to load company profile'
            MountPage("editCompany", {}, 0, {}, "", <<>>, TRUE,
                      {}, {}, {}, {}, {}, {})
    /\ UNCHANGED <<dbVars, adEnv>>

CreateCompanyShown == page \in {"createCompany", "editCompany"}

\* the form is rendered only while success is false
FormShown == CreateCompanyShown /\ ~ccSuccess /\ ccPc = "idle"

\* handleChange for companyName
CcSetName(nm) ==
    /\ FormShown
    /\ nm # ccName
    /\ ccName' = nm
    /\ UNCHANGED <<ccExistingProfile, ccExistingCreatedAt, ccExistingLocations, ccAddress, ccCoordsSet, ccPc,
                   ccCompanyId, ccNewCode, ccReferralCode, ccError, ccSuccess, ccLoading>>
    /\ UNCHANGED <<page, listVars, dbVars, adEnv>>

\* handleAddressChange
CcSetAddress(nonEmpty) ==
    /\ FormShown
    /\ nonEmpty # ccAddress
    /\ ccAddress' = nonEmpty
    /\ UNCHANGED <<ccExistingProfile, ccExistingCreatedAt, ccExistingLocations, ccName, ccCoordsSet, ccPc,
                   ccCompanyId, ccNewCode, ccReferralCode, ccError, ccSuccess, ccLoading>>
    /\ UNCHANGED <<page, listVars, dbVars, adEnv>>

\* handleCoordsChange
CcSetCoords ==
    /\ FormShown
    /\ ~ccCoordsSet
    /\ ccCoordsSet' = TRUE
    /\ UNCHANGED <<ccExistingProfile, ccExistingCreatedAt, ccExistingLocations, ccName, ccAddress, ccPc,
                   ccCompanyId, ccNewCode, ccReferralCode, ccError, ccSuccess, ccLoading>>
    /\ UNCHANGED <<page, listVars, dbVars, adEnv>>

\* handleSubmit returns: its locals companyId and newReferralCode are gone
CcReturn ==
    /\ ccPc' = "idle"
    /\ ccCompanyId' = 0
    /\ ccNewCode' = <<>>

\* catch (error) { setError(...); setSuccess(false) } finally { setLoading(false) }
CcCatch ==
    /\ ccError' = TRUE
    /\ ccSuccess' = FALSE
    /\ ccLoading' = FALSE
    /\ CcReturn

\* setSuccess(true); setError(null); finally { setLoading(false) }
CcSucceed ==
    /\ ccSuccess' = TRUE
    /\ ccError' = FALSE
    /\ ccLoading' = FALSE
    /\ CcReturn

\* a variant of handleSubmit without the check of the location
CcSubmit_NoValidation(run) ==
    /\ FormShown
    /\ ccName # ""
    /\ ccLoading' = TRUE
    /\ UNCHANGED ccError
    /\ IF ccExistingProfile # 0
       THEN ccPc' = "updateDoc" /\ UNCHANGED ccNewCode
       ELSE ccPc' = "addCompany" /\ ccNewCode' = generateReferralCode(run)
    /\ UNCHANGED <<ccExistingProfile, ccExistingCreatedAt, ccExistingLocations, ccName,
                   ccAddress, ccCoordsSet, ccCompanyId, ccReferralCode, ccSuccess>>
    /\ UNCHANGED <<page, listVars, dbVars, adEnv>>

\* handleSubmit up to its first await; run is what Math.random returns to
\* generateReferralCode
CcSubmit(run) ==
    /\ FormShown
    /\ ccName # ""        \* the companyName field is required
    /\ IF ccExistingProfile = 0 /\ (~ccCoordsSet \/ ~ccAddress)
       THEN \* "Please select a valid address for the new company"
            /\ ccError' = TRUE
            /\ ccLoading' = FALSE
            /\ UNCHANGED <<ccPc, ccNewCode>>
       ELSE /\ ccLoading' = TRUE
            /\ UNCHANGED ccError
            /\ IF ccExistingProfile # 0
               THEN ccPc' = "updateDoc" /\ UNCHANGED ccNewCode
               ELSE ccPc' = "addCompany" /\ ccNewCode' = generateReferralCode(run)
    /\ UNCHANGED <<ccExistingProfile, ccExistingCreatedAt, ccExistingLocations, ccName, ccAddress, ccCoordsSet,
                   ccCompanyId, ccReferralCode, ccSuccess>>
    /\ UNCHANGED <<page, listVars, dbVars, adEnv>>

\* await addDoc(collection(db,"companyProfiles"), companyData) settles
CcCompanyWritten(ok) ==
    /\ ccPc = "addCompany"
    /\ IF ok
       THEN /\ nextId < FirstId + MaxDocs
            /\ companyProfiles' = companyProfiles \cup
                  {[id |-> nextId, companyName |-> ccName, referralCode |-> ccNewCode,
                    createdAt |-> now, updatedAt |-> now]}
            /\ nextId' = nextId + 1
            /\ ccCompanyId' = nextId
            /\ ccReferralCode' = ccNewCode
            /\ ccPc' = "addLocation"
            /\ UNCHANGED <<ccError, ccSuccess, ccLoading, ccNewCode>>
       ELSE /\ CcCatch
            /\ UNCHANGED <<companyProfiles, nextId, ccReferralCode>>
    /\ UNCHANGED <<locations, users, mapData>>
    /\ UNCHANGED <<ccExistingProfile, ccExistingCreatedAt, ccExistingLocations, ccName, ccAddress, ccCoordsSet>>
    /\ UNCHANGED <<page, listVars, adEnv>>

\* a variant of the create branch that would undo the company write when
\* the location write fails
CcLocationWritten_Rollback(ok) ==
    /\ ccPc = "addLocation"
    /\ IF ok
       THEN /\ nextId < FirstId + MaxDocs
            /\ locations' = locations \cup {LocationDoc(nextId, ccCompanyId, FormPos)}
            /\ nextId' = nextId + 1
            /\ CcSucceed
            /\ UNCHANGED companyProfiles
       ELSE /\ CcCatch
            /\ companyProfiles' = {c \in companyProfiles : c.id # ccCompanyId}
            /\ UNCHANGED <<locations, nextId>>
    /\ UNCHANGED <<users, mapData>>
    /\ UNCHANGED <<ccExistingProfile, ccExistingCreatedAt, ccExistingLocations, ccName, ccAddress, ccCoordsSet,
                   ccReferralCode>>
    /\ UNCHANGED <<page, listVars, adEnv>>

\* await addDoc(collection(db,`companyProfiles/${companyId}/locations`), locationData)
\* of the create branch settles
CcLocationWritten(ok) ==
    /\ ccPc = "addLocation"
    /\ IF ok
       THEN /\ nextId < FirstId + MaxDocs
            /\ locations' = locations \cup {LocationDoc(nextId, ccCompanyId, FormPos)}
            /\ nextId' = nextId + 1
            /\ CcSucceed
       ELSE /\ CcCatch
            /\ UNCHANGED <<locations, nextId>>
    /\ UNCHANGED <<companyProfiles, users, mapData>>
    /\ UNCHANGED <<ccExistingProfile, ccExistingCreatedAt, ccExistingLocations, ccName, ccAddress, ccCoordsSet,
                   ccReferralCode>>
    /\ UNCHANGED <<page, listVars, adEnv>>

\* await updateDoc(doc(db,"companyProfiles",existingProfile.id), companyData)
\* settles; updateDoc fails when the document does not exist
CcUpdateWritten(ok) ==
    /\ ccPc = "updateDoc"
    /\ IF ok /\ ccExistingProfile \in CompanyIds
       THEN /\ companyProfiles' =
                 {IF c.id = ccExistingProfile
                  THEN [c EXCEPT !.companyName = ccName,
                                 !.createdAt = IF ccExistingCreatedAt # 0
                                               THEN ccExistingCreatedAt ELSE now,
                                 !.updatedAt = now]
                  ELSE c : c \in companyProfiles}
            /\ IF ccCoordsSet /\ ccAddress
               THEN /\ ccPc' = "addLocationToExisting"
                    /\ ccCompanyId' = ccExistingProfile
                    /\ UNCHANGED <<ccError, ccSuccess, ccLoading, ccNewCode>>
               ELSE CcSucceed
       ELSE /\ CcCatch
            /\ UNCHANGED companyProfiles
    /\ UNCHANGED <<locations, users, mapData, nextId>>
    /\ UNCHANGED <<ccExistingProfile, ccExistingCreatedAt, ccExistingLocations, ccName, ccAddress, ccCoordsSet,
                   ccReferralCode>>
    /\ UNCHANGED <<page, listVars, adEnv>>

\* the addDoc of the update branch settles
CcUpdateLocationWritten(ok) ==
    /\ ccPc = "addLocationToExisting"
    /\ IF ok
       THEN /\ nextId < FirstId + MaxDocs
            /\ locations' = locations \cup {LocationDoc(nextId, ccCompanyId, FormPos)}
            /\ nextId' = nextId + 1
            /\ CcSucceed
       ELSE /\ CcCatch
            /\ UNCHANGED <<locations, nextId>>
    /\ UNCHANGED <<companyProfiles, users, mapData>>
    /\ UNCHANGED <<ccExistingProfile, ccExistingCreatedAt, ccExistingLocations, ccName, ccAddress, ccCoordsSet,
                   ccReferralCode>>
    /\ UNCHANGED <<page, listVars, adEnv>>

\* handleDeleteLocation(locationId), of the edit route (if (!id) return)
CcDeleteLocation(locationId, ok) ==
    /\ page = "editCompany"
    /\ FormShown
    /\ ccExistingProfile # 0
    /\ locationId \in ccExistingLocations
    /\ IF ok
       THEN /\ locations' = {l \in locations :
                               ~(l.companyId = ccExistingProfile /\ l.id = locationId)}
            /\ ccExistingLocations' = ccExistingLocations \ {locationId}
            /\ ccError' = FALSE
       ELSE /\ ccError' = TRUE
            /\ UNCHANGED <<locations, ccExistingLocations>>
    /\ UNCHANGED <<companyProfiles, users, mapData, nextId>>
    /\ UNCHANGED <<ccExistingProfile, ccExistingCreatedAt, ccName, ccAddress, ccCoordsSet, ccPc, ccCompanyId,
                   ccNewCode, ccReferralCode, ccSuccess, ccLoading>>
    /\ UNCHANGED <<page, listVars, adEnv>>


\* ---- LocationList ----
\* route /locations: fetchLocations reads the companies, then the locations
\* subcollection of each of them
OpenLocationList(ok) ==
    /\ NoHandlerRunning
    /\ MountPage("locations", {}, 0, {}, "", <<>>, FALSE,
                 IF ok THEN {[id |-> l.id, companyProfileId |-> l.companyId] :
                               l \in {x \in locations : x.companyId \in CompanyIds}}
                       ELSE {},
                 {}, {}, {}, {}, {})
    /\ UNCHANGED <<dbVars, adEnv>>

\* deleteLocation(location), confirmed in window.confirm
LlDeleteLocation(loc, ok) ==
    /\ page = "locations"
    /\ loc \in llLocations
    /\ IF ok
       THEN /\ locations' = {l \in locations :
                               ~(l.companyId = loc.companyProfileId /\ l.id = loc.id)}
            /\ llLocations' = {l \in llLocations : l.id # loc.id}
       ELSE UNCHANGED <<locations, llLocations>>
    /\ UNCHANGED <<companyProfiles, users, mapData, nextId>>
    /\ UNCHANGED <<page, ccVars, clCompanies, clLoading, clDeletes, clocCompanies, ulUsers, ulCompanies,
                   ulSelectedUser, cuCompanyProfiles, jlJobs, jlSelectedJob, jlLoading>>
    /\ UNCHANGED adEnv

\* ---- CreateLocation ----
\* route /locations/create: fetchCompanies
OpenCreateLocation(ok) ==
    /\ NoHandlerRunning
    /\ MountPage("createLocation", {}, 0, {}, "", <<>>, FALSE, {},
                 IF ok THEN CompanyIds ELSE {}, {}, {}, {}, {})
    /\ UNCHANGED <<dbVars, adEnv>>

\* handleSubmit with formData.companyId = companyId (0: none selected) and
\* an address with coordinates selected or not
ClocSubmit(companyId, hasAddress, ok) ==
    /\ page = "createLocation"
    /\ companyId \in clocCompanies \cup {0}
    /\ IF companyId # 0 /\ hasAddress /\ ok
       THEN /\ nextId < FirstId + MaxDocs
            /\ locations' = locations \cup {LocationDoc(nextId, companyId, FormPos)}
            /\ nextId' = nextId + 1
       ELSE UNCHANGED <<locations, nextId>>
    /\ UNCHANGED <<companyProfiles, users, mapData>>
    /\ UNCHANGED <<page, ccVars, listVars, adEnv>>

\* ---- UserList (Firestore) ----
\* the value of a field that a row does not have
Undefined == "undefined"

\* companiesSnapshot.docs.map(...): the fields of the companies the page uses
companiesList == {[id |-> c.id, companyName |-> c.companyName] : c \in companyProfiles}

\* a variant of the lookup entry that would keep an empty name as it is
companyDataName_AsStored(company) == company.companyName

\* companyData[company.id].name
companyDataName(company) ==
    IF company.companyName = "" THEN "Unnamed Company" ELSE company.companyName

\* usersWithCompanies: every user with the name of its company in the lookup
\* map built from the fetched companies
usersWithCompanies(usersList, fetched) ==
    {[id |-> u.id, companyProfileId |-> u.companyProfileId,
      companyName |->
        IF u.companyProfileId # 0 /\ \E c \in fetched : c.id = u.companyProfileId
        THEN companyDataName(CHOOSE c \in fetched : c.id = u.companyProfileId)
        ELSE Undefined] : u \in usersList}

\* route /users: fetchData reads users and companyProfiles
OpenUserList(ok) ==
    /\ NoHandlerRunning
    /\ MountPage("users", {}, 0, {}, "", <<>>, FALSE, {}, {},
                 IF ok THEN usersWithCompanies(users, companiesList) ELSE {},
                 IF ok THEN companiesList ELSE {}, {}, {})
    /\ UNCHANGED <<dbVars, adEnv>>

\* handleMenuOpen(event, user)
UlMenuOpen(u) ==
    /\ page = "users"
    /\ u \in ulUsers
    /\ ulSelectedUser # u.id
    /\ ulSelectedUser' = u.id
    /\ UNCHANGED <<page, ccVars, clCompanies, clLoading, clDeletes, llLocations, clocCompanies, ulUsers,
                   ulCompanies, cuCompanyProfiles, jlJobs, jlSelectedJob, jlLoading>>
    /\ UNCHANGED <<dbVars, adEnv>>

\* handleDeleteConfirm
UlDeleteConfirm(ok) ==
    /\ page = "users"
    /\ ulSelectedUser # 0
    /\ IF ok
       THEN /\ users' = {u \in users : u.id # ulSelectedUser}
            /\ ulUsers' = {u \in ulUsers : u.id # ulSelectedUser}
            /\ ulSelectedUser' = 0
       ELSE UNCHANGED <<users, ulUsers, ulSelectedUser>>
    /\ UNCHANGED <<companyProfiles, locations, mapData, nextId>>
    /\ UNCHANGED <<page, ccVars, clCompanies, clLoading, clDeletes, llLocations, clocCompanies, ulCompanies,
                   cuCompanyProfiles, jlJobs, jlSelectedJob, jlLoading>>
    /\ UNCHANGED adEnv

\* handleAssignCompany(companyId), companyId picked in the dialog that lists
\* the fetched companies; updateDoc fails when the user document is gone
UlAssignCompany(companyId, ok) ==
    /\ page = "users"
    /\ ulSelectedUser # 0
    /\ \E c \in ulCompanies : c.id = companyId
    /\ IF ok /\ \E u \in users : u.id = ulSelectedUser
       THEN /\ users' = {IF u.id = ulSelectedUser
                         THEN [u EXCEPT !.companyProfileId = companyId] ELSE u :
                         u \in users}
            /\ ulUsers' = {IF u.id = ulSelectedUser
                           THEN [u EXCEPT !.companyProfileId = companyId,
                                          !.companyName =
                                             LET company == CHOOSE c \in ulCompanies : c.id = companyId
                                             IN  IF company.companyName = ""
                                                 THEN "Unnamed Company"
                                                 ELSE company.companyName]
                           ELSE u :
                           u \in ulUsers}
       ELSE UNCHANGED <<users, ulUsers>>
    /\ UNCHANGED <<companyProfiles, locations, mapData, nextId>>
    /\ UNCHANGED <<page, ccVars, clCompanies, clLoading, clDeletes, llLocations, clocCompanies, ulCompanies,
                   ulSelectedUser, cuCompanyProfiles, jlJobs, jlSelectedJob, jlLoading>>
    /\ UNCHANGED adEnv

\* ---- CreateUser ----
\* route /users/create: fetchCompanyProfiles
OpenCreateUser(ok) ==
    /\ NoHandlerRunning
    /\ MountPage("createUser", {}, 0, {}, "", <<>>, FALSE, {}, {}, {}, {},
                 IF ok THEN CompanyIds ELSE {}, {})
    /\ UNCHANGED <<dbVars, adEnv>>

\* handleSubmit: valid says whether name, email and password pass the
\* checks, companyProfileId is the select's value (0: ''), okAuth and okDoc
\* whether createUserWithEmailAndPassword and setDoc succeed
CuSubmit(valid, companyProfileId, okAuth, okDoc) ==
    /\ page = "createUser"
    /\ companyProfileId \in cuCompanyProfiles \cup {0}
    /\ IF valid /\ okAuth /\ okDoc
       THEN /\ nextId < FirstId + MaxDocs
            /\ users' = users \cup
                  {[id |-> nextId, companyProfileId |-> companyProfileId]}
            /\ nextId' = nextId + 1
       ELSE UNCHANGED <<users, nextId>>
    /\ UNCHANGED <<companyProfiles, locations, mapData>>
    /\ UNCHANGED <<page, ccVars, listVars, adEnv>>

\* ---- JobsList ----
\* route /jobs: useState initial values; the mount effect calls fetchJobs
OpenJobsList ==
    /\ NoHandlerRunning
    /\ page # "jobs"
    /\ MountPage("jobs", {}, 0, {}, "", <<>>, FALSE, {}, {}, {}, {}, {}, {})
    /\ UNCHANGED <<dbVars, adEnv>>

\* the getDoc calls of fetchJobs, each named by the collection it reads, the
\* company it reads under (locations only) and the document id
CompanyLookup(id) == [kind |-> "company", under |-> 0, id |-> id]
LocationLookup(companyId, id) == [kind |-> "location", under |-> companyId, id |-> id]
UserLookup(id) == [kind |-> "user", under |-> 0, id |-> id]

\* companyIds, locationIds and userIds of fetchJobs
JobCompanyIds == {j.companyProfileId : j \in {x \in mapData : x.companyProfileId # 0}}
JobLocationIds == {j.locationId : j \in {x \in mapData : x.locationId # 0}}
JobUserIds == {j.userId : j \in {x \in mapData : x.userId # 0}}

\* every getDoc fetchJobs may issue
Lookups ==
    {CompanyLookup(c) : c \in JobCompanyIds}
      \cup {LocationLookup(c, l) : c \in JobCompanyIds, l \in JobLocationIds}
      \cup {UserLookup(u) : u \in JobUserIds}

\* the address of a location and the name of a user: the documents of the
\* model carry neither, their id stands for it
AddressOf(locationId) == ToString(locationId)
UserNameOf(userId) == ToString(userId)

\* companyData, locationData and userData have an entry for the id: the
\* document exists and a getDoc that reads it did not fail; a location is
\* looked for under every company of companyIds
InCompanyData(id, failed) ==
    /\ id \in CompanyIds
    /\ CompanyLookup(id) \notin failed
InLocationData(id, failed) ==
    \E c \in JobCompanyIds :
       /\ \E l \in locations : l.companyId = c /\ l.id = id
       /\ LocationLookup(c, id) \notin failed
InUserData(id, failed) ==
    /\ \E u \in users : u.id = id
    /\ UserLookup(id) \notin failed

\* jobsWithDetails, when the getDoc calls in failed throw
jobsWithDetails(failed) ==
    {[id |-> job.id,
      companyName |->
         IF job.companyProfileId # 0 /\ InCompanyData(job.companyProfileId, failed)
         THEN companyDataName(CompanyDoc(job.companyProfileId))
         ELSE Undefined,
      locationName |->
         IF job.locationId # 0 /\ InLocationData(job.locationId, failed)
         THEN AddressOf(job.locationId)
         ELSE Undefined,
      userName |->
         IF job.userId # 0 /\ InUserData(job.userId, failed)
         THEN UserNameOf(job.userId)
         ELSE Undefined] : job \in mapData}

\* a variant of fetchJobs in which a failed lookup would end the whole fetch
FetchJobsSettles_NoInnerCatch(ok, failed) ==
    /\ page = "jobs"
    /\ jlLoading
    /\ failed \subseteq Lookups
    /\ jlJobs' = IF ok /\ failed = {} THEN jobsWithDetails(failed) ELSE jlJobs
    /\ jlLoading' = FALSE
    /\ UNCHANGED <<page, ccVars, clCompanies, clLoading, clDeletes, llLocations,
                   clocCompanies, ulUsers, ulCompanies, ulSelectedUser,
                   cuCompanyProfiles, jlSelectedJob>>
    /\ UNCHANGED <<dbVars, adEnv>>

\* fetchJobs settles: ok says whether the query of mapData succeeds, failed
\* which getDoc calls throw; setJobs(jobsWithDetails), or console.error when
\* the query fails; finally setLoading(false)
FetchJobsSettles(ok, failed) ==
    /\ page = "jobs"
    /\ jlLoading
    /\ failed \subseteq Lookups
    /\ jlJobs' = IF ok THEN jobsWithDetails(failed) ELSE jlJobs
    /\ jlLoading' = FALSE
    /\ UNCHANGED <<page, ccVars, clCompanies, clLoading, clDeletes, llLocations,
                   clocCompanies, ulUsers, ulCompanies, ulSelectedUser,
                   cuCompanyProfiles, jlSelectedJob>>
    /\ UNCHANGED <<dbVars, adEnv>>

\* handleMenuOpen(event, job)
JlMenuOpen(j) ==
    /\ page = "jobs"
    /\ j \in jlJobs
    /\ jlSelectedJob # j.id
    /\ jlSelectedJob' = j.id
    /\ UNCHANGED <<page, ccVars, clCompanies, clLoading, clDeletes, llLocations, clocCompanies, ulUsers,
                   ulCompanies, ulSelectedUser, cuCompanyProfiles, jlJobs, jlLoading>>
    /\ UNCHANGED <<dbVars, adEnv>>

\* handleDeleteConfirm
JlDeleteConfirm(ok) ==
    /\ page = "jobs"
    /\ jlSelectedJob # 0
    /\ IF ok
       THEN /\ mapData' = {j \in mapData : j.id # jlSelectedJob}
            /\ jlJobs' = {j \in jlJobs : j.id # jlSelectedJob}
            /\ jlSelectedJob' = 0
       ELSE UNCHANGED <<mapData, jlJobs, jlSelectedJob>>
    /\ UNCHANGED <<companyProfiles, locations, users, nextId>>
    /\ UNCHANGED <<page, ccVars, clCompanies, clLoading, clDeletes, llLocations, clocCompanies, ulUsers,
                   ulCompanies, ulSelectedUser, cuCompanyProfiles, jlLoading>>
    /\ UNCHANGED adEnv


(***************************************************************************)
(* EventList: the events table is read on mount and again whenever the     *)
(* edit dialog closes.                                                     *)
(***************************************************************************)
EventIds == {31, 32}

\* the table name fetchEvents reads and the one handleDelete deletes from
FetchEventsTable == "Events"
HandleDeleteTable == "events"

\* fetchEvents up to its await: setLoading(true) and one select is issued
FetchEventsStart ==
    /\ evLoading' = TRUE
    /\ evRequests' = Append(evRequests, "pending")

\* the component mounts: useState initial values, then the mount effect
EvMount ==
    /\ ~evMounted
    /\ evMounted' = TRUE
    /\ FetchEventsStart
    /\ UNCHANGED <<eventsTable, evEvents, evError, evSelectedEventId, evViewVars>>
    /\ UNCHANGED <<dbVars, adVars, evEnv>>

\* a variant of fetchEvents that would call itself again when the select fails
FetchEventsSettles_Retry(i, ok) ==
    /\ evMounted
    /\ i \in 1..Len(evRequests)
    /\ evRequests[i] = "pending"
    /\ evRequests' = IF ok THEN [evRequests EXCEPT ![i] = "ok"]
                     ELSE Append([evRequests EXCEPT ![i] = "failed"], "pending")
    /\ evEvents' = IF ok THEN eventsTable ELSE evEvents
    /\ evError' = IF ok THEN evError ELSE TRUE
    /\ evLoading' = ok
    /\ UNCHANGED <<eventsTable, evMounted, evSelectedEventId, evViewVars>>
    /\ UNCHANGED <<dbVars, adVars, evEnv>>

\* the select of request i settles: setEvents(data || []) or setError(...);
\* finally setLoading(false)
FetchEventsSettles(i, ok) ==
    /\ evMounted
    /\ i \in 1..Len(evRequests)
    /\ evRequests[i] = "pending"
    /\ evRequests' = [evRequests EXCEPT ![i] = IF ok THEN "ok" ELSE "failed"]
    /\ evEvents' = IF ok THEN eventsTable ELSE evEvents
    /\ evError' = IF ok THEN evError ELSE TRUE
    /\ evLoading' = FALSE
    /\ UNCHANGED <<eventsTable, evMounted, evSelectedEventId, evViewVars>>
    /\ UNCHANGED <<dbVars, adVars, evEnv>>

\* ---- EventList: search, filters and pagination ----
\* the table the list pages through holds at most MaxEvents rows
MaxEvents == 6
EventTableIds == {30 + k : k \in 1..MaxEvents}

\* the fields of the row id that filterEvents reads (day -1: null)
EventRow(id) ==
    [id |-> id,
     name |-> IF id % 2 = 0 THEN <<"a", "B">> ELSE <<"b">>,
     description |-> <<"c">>,
     type |-> IF id % 3 = 0 THEN "contest"
              ELSE IF id % 3 = 1 THEN "video" ELSE "live_stream",
     athelete_token_id |-> IF id % 2 = 0 THEN 51 ELSE 52,
     day |-> IF id % 4 = 0 THEN -1 ELSE 5]

\* the values the filter controls offer: a type or '', an athlete or '', a
\* date or null
FilterValues ==
    [type |-> {"", "video", "live_stream", "contest"},
     athleteId |-> {0, 51},
     day |-> {-1, 5}]

\* <TablePagination rowsPerPageOptions={[5, 10, 25]}>
RowsPerPageOptions == {5, 10, 25}

\* .order('created_at', { ascending: false }): the newer rows, which carry
\* the larger ids, come first
RECURSIVE OrderNewestFirst(_)
OrderNewestFirst(S) ==
    IF S = {} THEN <<>>
    ELSE LET first == CHOOSE d \in S : \A e \in S : d >= e
         IN <<first>> \o OrderNewestFirst(S \ {first})

\* Array.prototype.slice(from, to)
Slice(s, from, to) ==
    LET end == Min(to, Len(s))
    IN [i \in 1..(IF end > from THEN end - from ELSE 0) |-> s[from + i]]

\* filterEvents(events), events given by their ids
filterEvents(events) ==
    {id \in events :
       LET event == EventRow(id)
           matchesSearch ==
             \/ Includes(ToLower(event.name), ToLower(evSearchTerm))
             \/ Includes(ToLower(event.description), ToLower(evSearchTerm))
           matchesType == evFilters.type = "" \/ event.type = evFilters.type
           matchesAthlete ==
             evFilters.athleteId = 0 \/ event.athelete_token_id = evFilters.athleteId
           matchesDay ==
             (evFilters.day # -1 /\ event.day # -1) => event.day = evFilters.day
       IN matchesSearch /\ matchesType /\ matchesAthlete /\ matchesDay}

\* renderTableView: filteredEvents and the slice of it that is displayed
filteredEvents == OrderNewestFirst(filterEvents(evEvents))
paginatedEvents ==
    Slice(filteredEvents, evPage * evRowsPerPage, evPage * evRowsPerPage + evRowsPerPage)

\* the table with its rows and its pagination bar is rendered
TableRendered == evMounted /\ ~evLoading /\ evSelectedEventId = 0

\* onChange={(e) => setSearchTerm(e.target.value)}
EvSetSearchTerm(t) ==
    /\ evMounted
    /\ evSelectedEventId = 0
    /\ t # evSearchTerm
    /\ evSearchTerm' = t
    /\ UNCHANGED <<evFilters, evPage, evRowsPerPage>>
    /\ UNCHANGED <<eventsTable, evMounted, evEvents, evLoading, evError, evRequests,
                   evSelectedEventId>>
    /\ UNCHANGED <<dbVars, adVars, evEnv>>

\* handleFilterChange(filterName, value)
handleFilterChange(filterName, value) ==
    /\ evMounted
    /\ evSelectedEventId = 0
    /\ value # evFilters[filterName]
    /\ evFilters' = [evFilters EXCEPT ![filterName] = value]
    /\ evPage' = 0
    /\ UNCHANGED <<evSearchTerm, evRowsPerPage>>
    /\ UNCHANGED <<eventsTable, evMounted, evEvents, evLoading, evError, evRequests,
                   evSelectedEventId>>
    /\ UNCHANGED <<dbVars, adVars, evEnv>>

\* onPageChange={(_, newPage) => setPage(newPage)}: the bar's back button is
\* enabled on every page but the first, its next button on every page before
\* the last page of count={filteredEvents.length}
EvChangePage(newPage) ==
    /\ TableRendered
    /\ \/ evPage > 0 /\ newPage = evPage - 1
       \/ (evPage + 1) * evRowsPerPage < Len(filteredEvents) /\ newPage = evPage + 1
    /\ evPage' = newPage
    /\ UNCHANGED <<evSearchTerm, evFilters, evRowsPerPage>>
    /\ UNCHANGED <<eventsTable, evMounted, evEvents, evLoading, evError, evRequests,
                   evSelectedEventId>>
    /\ UNCHANGED <<dbVars, adVars, evEnv>>

\* onRowsPerPageChange: setRowsPerPage(parseInt(event.target.value, 10)); setPage(0)
EvChangeRowsPerPage(n) ==
    /\ TableRendered
    /\ n \in RowsPerPageOptions
    /\ n # evRowsPerPage
    /\ evRowsPerPage' = n
    /\ evPage' = 0
    /\ UNCHANGED <<evSearchTerm, evFilters>>
    /\ UNCHANGED <<eventsTable, evMounted, evEvents, evLoading, evError, evRequests,
                   evSelectedEventId>>
    /\ UNCHANGED <<dbVars, adVars, evEnv>>

\* handleDelete(id) from the delete button of a displayed row, confirmed in
\* window.confirm
EvHandleDelete(id, ok) ==
    /\ TableRendered
    /\ id \in Range(paginatedEvents)
    /\ IF ok
       THEN /\ eventsTable' = IF HandleDeleteTable = FetchEventsTable
                              THEN eventsTable \ {id} ELSE eventsTable
            /\ evEvents' = evEvents \ {id}
            /\ UNCHANGED evError
       ELSE /\ evError' = TRUE
            /\ UNCHANGED <<eventsTable, evEvents>>
    /\ UNCHANGED <<evMounted, evLoading, evRequests, evSelectedEventId, evViewVars>>
    /\ UNCHANGED <<dbVars, adVars, evEnv>>

\* handleEdit(eventId)
EvHandleEdit(id) ==
    /\ TableRendered
    /\ id \in Range(paginatedEvents)
    /\ evSelectedEventId' = id
    /\ UNCHANGED <<eventsTable, evMounted, evEvents, evLoading, evError, evRequests, evViewVars>>
    /\ UNCHANGED <<dbVars, adVars, evEnv>>

\* handleEditClose: the dialog closes and fetchEvents is called
EvHandleEditClose ==
    /\ evMounted
    /\ evSelectedEventId # 0
    /\ Len(evRequests) < MaxFetches
    /\ evSelectedEventId' = 0
    /\ FetchEventsStart
    /\ UNCHANGED <<eventsTable, evMounted, evEvents, evError, evViewVars>>
    /\ UNCHANGED <<dbVars, adVars, evEnv>>

\* the component unmounts; responses still in flight are dropped
EvUnmount ==
    /\ evMounted
    /\ evMounted' = FALSE
    /\ evEvents' = {}
    /\ evLoading' = TRUE
    /\ evError' = FALSE
    /\ evRequests' = <<>>
    /\ evSelectedEventId' = 0
    /\ evSearchTerm' = <<>>
    /\ evFilters' = [type |-> "", athleteId |-> 0, day |-> -1]
    /\ evPage' = 0
    /\ evRowsPerPage' = 10
    /\ UNCHANGED eventsTable
    /\ UNCHANGED <<dbVars, adVars, evEnv>>


(***************************************************************************)
(* The FTO pages: FTOList with its EditFTO dialog, and CreateFTO.          *)
(***************************************************************************)
\* rows inserted by CreateFTO get ids from here on, at most MaxNewFtos of them
FirstNewFto == 10
MaxNewFtos == 2

ActiveFtos == {f \in ftos : f.active}

\* .update({ active: false }).eq('active', true), without rows whose id is except
DeactivateActive(except) ==
    {IF f.active /\ f.id # except THEN [f EXCEPT !.active = FALSE] ELSE f : f \in ftos}

NoFtoHandlerRunning == cfPc = "idle" /\ efPc = "idle"

\* ---- FTOList ----
\* the component mounts; fetchFTOs settles (ok or not)
FlMount(ok) ==
    /\ NoFtoHandlerRunning
    /\ ftoPage # "list"
    /\ ftoPage' = "list"
    /\ flFtos' = IF ok THEN {f.id : f \in ftos} ELSE {}
    /\ cfActive' = FALSE
    /\ cfActiveFtoExists' = FALSE
    /\ cfCheckPending' = FALSE
    /\ cfFtosAtSubmit' = {}
    /\ UNCHANGED <<ftos, ftoNextId, cfPc, efVars>>
    /\ UNCHANGED ftoEnv

\* handleDelete(id), confirmed in window.confirm
FlHandleDelete(id, ok) ==
    /\ ftoPage = "list"
    /\ efFtoId = 0
    /\ id \in flFtos
    /\ IF ok
       THEN /\ ftos' = {f \in ftos : f.id # id}
            /\ flFtos' = flFtos \ {id}
       ELSE UNCHANGED <<ftos, flFtos>>
    /\ UNCHANGED <<ftoNextId, ftoPage, cfVars, efVars>>
    /\ UNCHANGED ftoEnv

\* handleEdit(ftoId): EditFTO is rendered, and its effect starts
\* fetchFTOData, fetchAthletes and checkOtherActiveFTOs
FlHandleEdit(id) ==
    /\ ftoPage = "list"
    /\ efFtoId = 0
    /\ id \in flFtos
    /\ efFtoId' = id
    /\ efLoaded' = FALSE
    /\ efActive' = FALSE
    /\ efDataPending' = TRUE
    /\ efCheckPending' = TRUE
    /\ efOtherActiveFtoExists' = FALSE
    /\ efPc' = "idle"
    /\ UNCHANGED <<ftos, ftoNextId, ftoPage, flFtos, cfVars>>
    /\ UNCHANGED ftoEnv

\* ---- EditFTO ----
\* fetchFTOData settles: setFto(data), or setError when the select fails or
\* .single() finds no row
FetchFTODataSettles(ok) ==
    /\ efFtoId # 0
    /\ efDataPending
    /\ efDataPending' = FALSE
    /\ IF ok /\ \E f \in ftos : f.id = efFtoId
       THEN /\ efLoaded' = TRUE
            /\ efActive' = (CHOOSE f \in ftos : f.id = efFtoId).active
       ELSE UNCHANGED <<efLoaded, efActive>>
    /\ UNCHANGED <<efFtoId, efCheckPending, efOtherActiveFtoExists, efPc>>
    /\ UNCHANGED <<ftos, ftoNextId, ftoPage, flFtos, cfVars>>
    /\ UNCHANGED ftoEnv

\* checkOtherActiveFTOs settles: setOtherActiveFtoExists(data.length > 0),
\* or console.error
CheckOtherActiveFTOsSettles(ok) ==
    /\ efFtoId # 0
    /\ efCheckPending
    /\ efCheckPending' = FALSE
    /\ efOtherActiveFtoExists' =
          IF ok THEN \E f \in ActiveFtos : f.id # efFtoId ELSE efOtherActiveFtoExists
    /\ UNCHANGED <<efFtoId, efLoaded, efActive, efDataPending, efPc>>
    /\ UNCHANGED <<ftos, ftoNextId, ftoPage, flFtos, cfVars>>
    /\ UNCHANGED ftoEnv

\* the form is rendered once fto is set
EditFormShown == efFtoId # 0 /\ efLoaded /\ efPc = "idle"

\* handleSwitchChange('active')
EfSwitchActive(newValue) ==
    /\ EditFormShown
    /\ newValue # efActive
    /\ efActive' = newValue
    /\ UNCHANGED <<efFtoId, efLoaded, efDataPending, efCheckPending,
                   efOtherActiveFtoExists, efPc>>
    /\ UNCHANGED <<ftos, ftoNextId, ftoPage, flFtos, cfVars>>
    /\ UNCHANGED ftoEnv


\* handleSubmit up to its first await
EfHandleSubmit ==
    /\ EditFormShown
    /\ efPc' = IF efActive /\ efOtherActiveFtoExists THEN "deactivate" ELSE "update"
    /\ UNCHANGED <<efFtoId, efLoaded, efActive, efDataPending, efCheckPending,
                   efOtherActiveFtoExists>>
    /\ UNCHANGED <<ftos, ftoNextId, ftoPage, flFtos, cfVars>>
    /\ UNCHANGED ftoEnv

\* .update({ active: false }).neq('id', ftoId).eq('active', true) settles
EfDeactivateSettles(ok) ==
    /\ efPc = "deactivate"
    /\ IF ok
       THEN /\ ftos' = DeactivateActive(efFtoId)
            /\ efPc' = "update"
       ELSE /\ efPc' = "idle"
            /\ UNCHANGED ftos
    /\ UNCHANGED <<efFtoId, efLoaded, efActive, efDataPending, efCheckPending,
                   efOtherActiveFtoExists>>
    /\ UNCHANGED <<ftoNextId, ftoPage, flFtos, cfVars>>
    /\ UNCHANGED ftoEnv

\* .update(fto).eq('id', ftoId) settles; on success onUpdate() refetches the
\* list (okList: that select succeeds) and onClose() unmounts the dialog
EfUpdateSettles(ok, okList) ==
    /\ efPc = "update"
    /\ IF ok
       THEN /\ ftos' = {IF f.id = efFtoId THEN [f EXCEPT !.active = efActive] ELSE f :
                        f \in ftos}
            /\ flFtos' = IF okList THEN {f.id : f \in ftos} ELSE flFtos
            /\ efFtoId' = 0
            /\ efLoaded' = FALSE
            /\ efActive' = FALSE
            /\ efDataPending' = FALSE
            /\ efCheckPending' = FALSE
            /\ efOtherActiveFtoExists' = FALSE
            /\ efPc' = "idle"
       ELSE /\ efPc' = "idle"
            /\ UNCHANGED <<ftos, flFtos, efFtoId, efLoaded, efActive, efDataPending,
                           efCheckPending, efOtherActiveFtoExists>>
    /\ UNCHANGED <<ftoNextId, ftoPage, cfVars>>
    /\ UNCHANGED ftoEnv

\* Cancel, or the dialog's onClose: handleEditClose unmounts EditFTO
EfClose ==
    /\ efFtoId # 0
    /\ efPc = "idle"
    /\ efFtoId' = 0
    /\ efLoaded' = FALSE
    /\ efActive' = FALSE
    /\ efDataPending' = FALSE
    /\ efCheckPending' = FALSE
    /\ efOtherActiveFtoExists' = FALSE
    /\ UNCHANGED efPc
    /\ UNCHANGED <<ftos, ftoNextId, ftoPage, flFtos, cfVars>>
    /\ UNCHANGED ftoEnv

\* ---- CreateFTO ----
\* the component mounts; its effect starts checkActiveFTO
CfMount ==
    /\ NoFtoHandlerRunning
    /\ efFtoId = 0
    /\ ftoPage # "create"
    /\ ftoPage' = "create"
    /\ flFtos' = {}
    /\ cfActive' = FALSE
    /\ cfActiveFtoExists' = FALSE
    /\ cfCheckPending' = TRUE
    /\ cfFtosAtSubmit' = {}
    /\ UNCHANGED <<ftos, ftoNextId, cfPc, efVars>>
    /\ UNCHANGED ftoEnv

\* checkActiveFTO settles
CheckActiveFTOSettles(ok) ==
    /\ ftoPage = "create"
    /\ cfCheckPending
    /\ cfCheckPending' = FALSE
    /\ cfActiveFtoExists' = IF ok THEN ActiveFtos # {} ELSE cfActiveFtoExists
    /\ UNCHANGED <<cfActive, cfPc, cfFtosAtSubmit>>
    /\ UNCHANGED <<ftos, ftoNextId, ftoPage, flFtos, efVars>>
    /\ UNCHANGED ftoEnv

\* handleActiveChange
CfHandleActiveChange(newActiveValue) ==
    /\ ftoPage = "create"
    /\ cfPc = "idle"
    /\ newActiveValue # cfActive
    /\ cfActive' = newActiveValue
    /\ UNCHANGED <<cfActiveFtoExists, cfCheckPending, cfPc, cfFtosAtSubmit>>
    /\ UNCHANGED <<ftos, ftoNextId, ftoPage, flFtos, efVars>>
    /\ UNCHANGED ftoEnv

\* onSubmit up to its first await
CfOnSubmit ==
    /\ ftoPage = "create"
    /\ cfPc = "idle"
    /\ cfPc' = IF cfActive THEN "deactivate" ELSE "upload"
    /\ cfFtosAtSubmit' = ftos
    /\ UNCHANGED <<cfActive, cfActiveFtoExists, cfCheckPending>>
    /\ UNCHANGED <<ftos, ftoNextId, ftoPage, flFtos, efVars>>
    /\ UNCHANGED ftoEnv

\* .update({ active: false }).eq('active', true) settles
CfDeactivateSettles(ok) ==
    /\ cfPc = "deactivate"
    /\ IF ok
       THEN /\ ftos' = DeactivateActive(0)
            /\ cfPc' = "upload"
       ELSE /\ cfPc' = "idle"
            /\ UNCHANGED ftos
    /\ UNCHANGED <<cfActive, cfActiveFtoExists, cfCheckPending, cfFtosAtSubmit>>
    /\ UNCHANGED <<ftoNextId, ftoPage, flFtos, efVars>>
    /\ UNCHANGED ftoEnv

\* the uploads of the cover image and the video settle
CfUploadsSettle(ok) ==
    /\ cfPc = "upload"
    /\ cfPc' = IF ok THEN "insert" ELSE "idle"
    /\ UNCHANGED <<cfActive, cfActiveFtoExists, cfCheckPending, cfFtosAtSubmit>>
    /\ UNCHANGED <<ftos, ftoNextId, ftoPage, flFtos, efVars>>
    /\ UNCHANGED ftoEnv

\* .insert([{...values, coverImageUrl, videoUrl}]) settles; the form keeps
\* its values (formik.resetForm is commented out)
CfInsertSettles(ok) ==
    /\ cfPc = "insert"
    /\ cfPc' = "idle"
    /\ IF ok
       THEN /\ ftoNextId < FirstNewFto + MaxNewFtos
            /\ ftos' = ftos \cup {[id |-> ftoNextId, active |-> cfActive]}
            /\ ftoNextId' = ftoNextId + 1
       ELSE UNCHANGED <<ftos, ftoNextId>>
    /\ UNCHANGED <<cfActive, cfActiveFtoExists, cfCheckPending, cfFtosAtSubmit>>
    /\ UNCHANGED <<ftoPage, flFtos, efVars>>
    /\ UNCHANGED ftoEnv


(***************************************************************************)
(* AddressAutocomplete: the prediction effect with its 300 ms timer.  Time *)
(* passes in steps of TickMs.                                              *)
(***************************************************************************)
\* setTimeout(..., 300)
DebounceMs == 300
\* if (query.length < 3)
MinQueryLength == 3
\* the granularity of time
TickMs == 100
\* the characters typed into the field
AddressChars == {"a"}
\* the description of the prediction the service returns
Description == <<"a", "a", "a", "a">>

aaEnv == <<dbVars, now, mvVars, mvData, gdVars, usVars, adVars, evVars, ftoVars, evfVars>>

\* the [query] effect for the value q: its cleanup has cleared the timer of
\* the previous run; returns when window.google is missing or q is short
PredictionEffect(q) ==
    IF ~windowGoogle
    THEN /\ aaError' = TRUE
         /\ aaTimer' = -1
         /\ UNCHANGED aaPredictions
    ELSE IF Len(q) < MinQueryLength
    THEN /\ aaPredictions' = <<>>
         /\ aaTimer' = -1
         /\ UNCHANGED aaError
    ELSE /\ aaTimer' = DebounceMs
         /\ UNCHANGED <<aaPredictions, aaError>>

\* the component mounts with defaultAddress = '' and its effects run
AaMount ==
    /\ ~aaMounted
    /\ aaMounted' = TRUE
    /\ PredictionEffect(aaQuery)
    /\ UNCHANGED <<aaQuery, aaLoading, aaUnchangedFor, aaRequests, aaGeocodePending>>
    /\ UNCHANGED aaEnv

\* a variant of the effect that would call fetchPredictions at once
AaSetQuery_NoDebounce(q) ==
    /\ aaMounted
    /\ q # aaQuery
    /\ Len(aaRequests) < MaxFetches
    /\ aaQuery' = q
    /\ aaUnchangedFor' = 0
    /\ aaTimer' = -1
    /\ IF windowGoogle /\ Len(q) >= MinQueryLength
       THEN /\ aaRequests' = Append(aaRequests, [input |-> q, status |-> "pending"])
            /\ aaLoading' = TRUE
            /\ aaError' = FALSE
            /\ UNCHANGED aaPredictions
       ELSE /\ aaPredictions' = IF windowGoogle THEN <<>> ELSE aaPredictions
            /\ aaError' = IF windowGoogle THEN aaError ELSE TRUE
            /\ UNCHANGED <<aaRequests, aaLoading>>
    /\ UNCHANGED <<aaMounted, aaGeocodePending>>
    /\ UNCHANGED aaEnv

\* onChange: setQuery(e.target.value), then the cleanup and the effect
AaSetQuery(q) ==
    /\ aaMounted
    /\ q # aaQuery
    /\ aaQuery' = q
    /\ aaUnchangedFor' = 0
    /\ PredictionEffect(q)
    /\ UNCHANGED <<aaMounted, aaLoading, aaRequests, aaGeocodePending>>
    /\ UNCHANGED aaEnv

\* the values a keystroke turns the query into
AaKeyStrokes ==
    {Append(aaQuery, c) : c \in IF Len(aaQuery) < MaxTermLen + 1 THEN AddressChars ELSE {}}
      \cup (IF aaQuery = <<>> THEN {} ELSE {SubSeq(aaQuery, 1, Len(aaQuery) - 1)})

\* TickMs pass without the timer being due
AaTick ==
    /\ aaMounted
    /\ aaTimer # 0
    /\ aaUnchangedFor < DebounceMs \/ aaTimer > 0
    /\ aaTimer' = IF aaTimer > 0 THEN aaTimer - TickMs ELSE aaTimer
    /\ aaUnchangedFor' = IF aaUnchangedFor < DebounceMs
                         THEN aaUnchangedFor + TickMs ELSE aaUnchangedFor
    /\ UNCHANGED <<aaMounted, aaQuery, aaPredictions, aaLoading, aaError, aaRequests,
                   aaGeocodePending>>
    /\ UNCHANGED aaEnv

\* the timer is due: fetchPredictions calls getPlacePredictions({ input: query })
AaTimerFires ==
    /\ aaMounted
    /\ aaTimer = 0
    /\ Len(aaRequests) < MaxFetches
    /\ aaTimer' = -1
    /\ aaLoading' = TRUE
    /\ aaError' = FALSE
    /\ aaRequests' = Append(aaRequests, [input |-> aaQuery, status |-> "pending"])
    /\ UNCHANGED <<aaMounted, aaQuery, aaPredictions, aaUnchangedFor, aaGeocodePending>>
    /\ UNCHANGED aaEnv

\* the callback of request i runs with the status the service reports
AaPredictionsArrive(i, status) ==
    /\ aaMounted
    /\ i \in 1..Len(aaRequests)
    /\ aaRequests[i].status = "pending"
    /\ aaRequests' = [aaRequests EXCEPT ![i].status = status]
    /\ aaLoading' = FALSE
    /\ aaPredictions' = IF status = "OK" THEN <<Description>> ELSE <<>>
    /\ aaError' = IF status \in {"OK", "ZERO_RESULTS"} THEN aaError ELSE TRUE
    /\ UNCHANGED <<aaMounted, aaQuery, aaTimer, aaUnchangedFor, aaGeocodePending>>
    /\ UNCHANGED aaEnv

\* handleSelectAddress(placeId, description) up to the geocoder's answer
AaSelectAddress ==
    /\ aaMounted
    /\ aaPredictions # <<>>
    /\ aaQuery' = aaPredictions[1]
    /\ aaGeocodePending' = TRUE
    /\ IF aaPredictions[1] # aaQuery
       THEN /\ aaUnchangedFor' = 0
            /\ aaTimer' = IF Len(aaPredictions[1]) < MinQueryLength THEN -1 ELSE DebounceMs
       ELSE UNCHANGED <<aaUnchangedFor, aaTimer>>
    /\ aaPredictions' = <<>>
    /\ UNCHANGED <<aaMounted, aaLoading, aaError, aaRequests>>
    /\ UNCHANGED aaEnv

\* the geocoder answers: setAddress / setCoordinates of the parent, or setError
AaGeocodeArrives(ok) ==
    /\ aaMounted
    /\ aaGeocodePending
    /\ aaGeocodePending' = FALSE
    /\ aaError' = IF ok THEN aaError ELSE TRUE
    /\ UNCHANGED <<aaMounted, aaQuery, aaPredictions, aaLoading, aaTimer, aaUnchangedFor,
                   aaRequests>>
    /\ UNCHANGED aaEnv

\* the component unmounts: the effect's cleanup clears the timer
AaUnmount ==
    /\ aaMounted
    /\ aaMounted' = FALSE
    /\ aaQuery' = <<>>
    /\ aaPredictions' = <<>>
    /\ aaLoading' = FALSE
    /\ aaError' = FALSE
    /\ aaTimer' = -1
    /\ aaUnchangedFor' = 0
    /\ aaRequests' = <<>>
    /\ aaGeocodePending' = FALSE
    /\ UNCHANGED aaEnv


(***************************************************************************)
(* CreateEvent (route /events/create) and EditEvent (the dialog of         *)
(* EventList, in its version with an event date).  The two components      *)
(* hold the same formik form and the same handlers; they differ in how the *)
(* form is filled at first, in the validation of video_url and in what a   *)
(* submit writes.  Dates are day numbers, day 0 being a Sunday, and one    *)
(* instant of the clock is one day.  The model changes the form only while *)
(* no submit is running.                                                   *)
(***************************************************************************)
evfEnv == <<dbVars, now, mvVars, mvData, gdVars, usVars, adVars, ftoVars, aaVars>>

EventTypes == {"video", "live_stream", "contest"}

\* rows of table Atheletes: two athletes with a dayOfTheWeek and one without
AthleteTokens ==
    {[id |-> 51, dayOfTheWeek |-> "Monday"],
     [id |-> 52, dayOfTheWeek |-> "Friday"],
     [id |-> 53, dayOfTheWeek |-> ""]}

dayNameToNumber ==
    [n \in {"Sunday", "Monday", "Tuesday", "Wednesday", "Thursday", "Friday",
            "Saturday"} |->
       CASE n = "Sunday" -> 0 [] n = "Monday" -> 1 [] n = "Tuesday" -> 2
         [] n = "Wednesday" -> 3 [] n = "Thursday" -> 4 [] n = "Friday" -> 5
         [] n = "Saturday" -> 6]

\* date.getDay()
getDay(date) == date % 7

\* startOfDay(new Date())
Today == now

\* the dates the admin tries in the event date picker, and in the picker of
\* the contest end date
DateChoices == {0, 1, 3, 5, MaxDate}
ContestEndChoices == {MaxDate}

\* athletes.find(a => a.id === id) || null, as the id or 0
FindAthlete(id) == IF \E a \in evfAthleteTokens : a.id = id THEN id ELSE 0

\* selectedAthlete.dayOfTheWeek ('' when there is none or no athlete)
SelectedDayOfTheWeek ==
    IF evfSelectedAthlete = 0 THEN ""
    ELSE (CHOOSE a \in AthleteTokens : a.id = evfSelectedAthlete).dayOfTheWeek

\* shouldDisableDate(date)
shouldDisableDate(date) ==
    IF date < Today THEN TRUE
    ELSE IF SelectedDayOfTheWeek = "" THEN FALSE
    ELSE IF SelectedDayOfTheWeek \in DOMAIN dayNameToNumber
         THEN getDay(date) # dayNameToNumber[SelectedDayOfTheWeek]
         ELSE TRUE

\* the component is unmounted: its state is gone
EventFormUnmounted ==
    /\ evfForm' = "none"
    /\ evfLoading' = FALSE
    /\ evfError' = FALSE
    /\ evfAthleteTokens' = {}
    /\ evfAthleteTokenId' = 0
    /\ evfSelectedAthlete' = 0
    /\ evfText' = FALSE
    /\ evfType' = ""
    /\ evfDay' = NullDay
    /\ evfContestEndDate' = NoDate
    /\ evfVideoUrl' = ""
    /\ evfVideoFile' = FALSE
    /\ evfLiveStreamUrl' = ""
    /\ evfPc' = "form"
    /\ evfUploaded' = FALSE

\* the form can be changed: it is rendered and no submit is running
EventFormShown ==
    /\ evfForm \in {"create", "edit"}
    /\ ~evfLoading
    /\ evfPc = "form"

\* ---- CreateEvent ----
\* route /events/create: useState / useFormik initial values, then
\* fetchAthleteTokens
CeMount(ok) ==
    /\ evfForm = "none"
    /\ ~evMounted
    /\ evfForm' = "create"
    /\ evfAthleteTokens' = IF ok THEN AthleteTokens ELSE {}
    /\ UNCHANGED <<eventFields, evfNextId, evfLoading, evfError, evfAthleteTokenId,
                   evfSelectedAthlete, evfText, evfType, evfDay, evfContestEndDate,
                   evfVideoUrl, evfVideoFile, evfLiveStreamUrl, evfPc, evfUploaded>>
    /\ UNCHANGED <<evVars, evfEnv>>

\* the admin leaves /events/create
CeUnmount ==
    /\ evfForm = "create"
    /\ evfPc = "form"
    /\ EventFormUnmounted
    /\ UNCHANGED <<eventFields, evfNextId>>
    /\ UNCHANGED <<evVars, evfEnv>>

\* ---- EditEvent ----
\* EventList renders EditEvent for selectedEventId: useState initial values
\* (loading is true, day is '') and the effect that calls fetchEventDetails;
\* athletes is the list EventList passes down
EeMount(athletes) ==
    /\ evfForm = "none"
    /\ evMounted
    /\ evSelectedEventId # 0
    /\ evfForm' = "edit"
    /\ evfLoading' = TRUE
    /\ evfAthleteTokens' = athletes
    /\ evfDay' = EmptyDay
    /\ UNCHANGED <<eventFields, evfNextId, evfError, evfAthleteTokenId, evfSelectedAthlete,
                   evfText, evfType, evfContestEndDate, evfVideoUrl, evfVideoFile,
                   evfLiveStreamUrl, evfPc, evfUploaded>>
    /\ UNCHANGED <<evVars, evfEnv>>

\* fetchEventDetails after its await; formik takes the new initialValues
\* (enableReinitialize)
FetchEventDetailsSettles(ok) ==
    /\ evfForm = "edit"
    /\ evfLoading
    /\ evfLoading' = FALSE
    /\ IF ok /\ evSelectedEventId \in DOMAIN eventFields
       THEN LET data == eventFields[evSelectedEventId]
            IN  /\ evfAthleteTokenId' = data.athelete_token_id
                /\ evfText' = TRUE
                /\ evfType' = data.type
                /\ evfDay' = IF data.day = NoDate THEN EmptyDay ELSE StringDay(data.day)
                /\ evfContestEndDate' = data.contest_end_date
                /\ evfVideoUrl' = IF data.video_url = Null THEN "" ELSE data.video_url
                /\ evfLiveStreamUrl' =
                      IF data.live_stream_url = Null THEN "" ELSE data.live_stream_url
                /\ evfSelectedAthlete' = FindAthlete(data.athelete_token_id)
                /\ UNCHANGED evfError
       ELSE /\ evfError' = TRUE
            /\ UNCHANGED <<evfAthleteTokenId, evfText, evfType, evfDay, evfContestEndDate,
                           evfVideoUrl, evfLiveStreamUrl, evfSelectedAthlete>>
    /\ UNCHANGED <<eventFields, evfNextId, evfForm, evfAthleteTokens, evfVideoFile, evfPc,
                   evfUploaded>>
    /\ UNCHANGED <<evVars, evfEnv>>

\* onClose(), which is EventList.handleEditClose: the dialog closes,
\* EditEvent is no longer rendered and fetchEvents is called
OnClose ==
    /\ Len(evRequests) < MaxFetches
    /\ evSelectedEventId' = 0
    /\ FetchEventsStart
    /\ EventFormUnmounted
    /\ UNCHANGED <<eventsTable, evMounted, evEvents, evError, evViewVars>>

\* the Cancel button
EeCancel ==
    /\ evfForm = "edit"
    /\ evfPc = "form"
    /\ OnClose
    /\ UNCHANGED <<eventFields, evfNextId>>
    /\ UNCHANGED evfEnv

\* ---- the handlers both forms have ----
\* name and description typed or erased (formik.handleChange)
EvfSetText(filled) ==
    /\ EventFormShown
    /\ evfText # filled
    /\ evfText' = filled
    /\ UNCHANGED <<eventFields, evfNextId, evfForm, evfLoading, evfError, evfAthleteTokens,
                   evfAthleteTokenId, evfSelectedAthlete, evfType, evfDay,
                   evfContestEndDate, evfVideoUrl, evfVideoFile, evfLiveStreamUrl, evfPc,
                   evfUploaded>>
    /\ UNCHANGED <<evVars, evfEnv>>

\* a variant of handleAthleteChange that would leave the day as it is
handleAthleteChange_KeepsDay(athleteId) ==
    /\ EventFormShown
    /\ \E a \in evfAthleteTokens : a.id = athleteId
    /\ athleteId # evfAthleteTokenId
    /\ evfAthleteTokenId' = athleteId
    /\ evfSelectedAthlete' = FindAthlete(athleteId)
    /\ UNCHANGED <<eventFields, evfNextId, evfForm, evfLoading, evfError, evfAthleteTokens,
                   evfText, evfType, evfDay, evfContestEndDate, evfVideoUrl, evfVideoFile,
                   evfLiveStreamUrl, evfPc, evfUploaded>>
    /\ UNCHANGED <<evVars, evfEnv>>

\* handleAthleteChange: another option of the athlete select is chosen
handleAthleteChange(athleteId) ==
    /\ EventFormShown
    /\ \E a \in evfAthleteTokens : a.id = athleteId
    /\ athleteId # evfAthleteTokenId
    /\ evfAthleteTokenId' = athleteId
    /\ evfSelectedAthlete' = FindAthlete(athleteId)
    /\ evfDay' = NullDay
    /\ UNCHANGED <<eventFields, evfNextId, evfForm, evfLoading, evfError, evfAthleteTokens,
                   evfText, evfType, evfContestEndDate, evfVideoUrl, evfVideoFile,
                   evfLiveStreamUrl, evfPc, evfUploaded>>
    /\ UNCHANGED <<evVars, evfEnv>>

\* the event date picker's onChange; the picker accepts only dates that
\* shouldDisableDate does not disable
EvfSetDay(date) ==
    /\ EventFormShown
    /\ ~shouldDisableDate(date)
    /\ evfDay # DateDay(date)
    /\ evfDay' = DateDay(date)
    /\ UNCHANGED <<eventFields, evfNextId, evfForm, evfLoading, evfError, evfAthleteTokens,
                   evfAthleteTokenId, evfSelectedAthlete, evfText, evfType,
                   evfContestEndDate, evfVideoUrl, evfVideoFile, evfLiveStreamUrl, evfPc,
                   evfUploaded>>
    /\ UNCHANGED <<evVars, evfEnv>>

\* a variant of handleTypeChange that would keep the selected file
handleTypeChange_KeepsFile(newType) ==
    /\ EventFormShown
    /\ newType \in EventTypes
    /\ newType # evfType
    /\ evfType' = newType
    /\ evfVideoUrl' = IF newType # "video" THEN "" ELSE evfVideoUrl
    /\ evfLiveStreamUrl' = IF newType # "live_stream" THEN "" ELSE evfLiveStreamUrl
    /\ evfContestEndDate' = IF newType # "contest" THEN NoDate ELSE evfContestEndDate
    /\ UNCHANGED <<eventFields, evfNextId, evfForm, evfLoading, evfError, evfAthleteTokens,
                   evfAthleteTokenId, evfSelectedAthlete, evfText, evfDay, evfVideoFile,
                   evfPc, evfUploaded>>
    /\ UNCHANGED <<evVars, evfEnv>>

\* handleTypeChange: another option of the type select is chosen
handleTypeChange(newType) ==
    /\ EventFormShown
    /\ newType \in EventTypes
    /\ newType # evfType
    /\ evfType' = newType
    /\ evfVideoUrl' = IF newType # "video" THEN "" ELSE evfVideoUrl
    /\ evfVideoFile' = IF newType # "video" THEN FALSE ELSE evfVideoFile
    /\ evfLiveStreamUrl' = IF newType # "live_stream" THEN "" ELSE evfLiveStreamUrl
    /\ evfContestEndDate' = IF newType # "contest" THEN NoDate ELSE evfContestEndDate
    /\ UNCHANGED <<eventFields, evfNextId, evfForm, evfLoading, evfError, evfAthleteTokens,
                   evfAthleteTokenId, evfSelectedAthlete, evfText, evfDay, evfPc,
                   evfUploaded>>
    /\ UNCHANGED <<evVars, evfEnv>>

\* the contest end date picker, rendered for type 'contest'.  It disables
\* the dates before the event date; without an event date CreateEvent
\* disables the dates before new Date(), today's date included, and
\* EditEvent disables none
EvfSetContestEndDate(date) ==
    /\ EventFormShown
    /\ evfType = "contest"
    /\ IF evfDay.kind \in {"date", "string"} THEN date >= evfDay.date
       ELSE evfForm = "create" => date > Today
    /\ evfContestEndDate # date
    /\ evfContestEndDate' = date
    /\ UNCHANGED <<eventFields, evfNextId, evfForm, evfLoading, evfError, evfAthleteTokens,
                   evfAthleteTokenId, evfSelectedAthlete, evfText, evfType, evfDay,
                   evfVideoUrl, evfVideoFile, evfLiveStreamUrl, evfPc, evfUploaded>>
    /\ UNCHANGED <<evVars, evfEnv>>

\* handleVideoChange: a file is chosen in the file input, rendered for type
\* 'video'
handleVideoChange ==
    /\ EventFormShown
    /\ evfType = "video"
    /\ evfVideoFile' = TRUE
    /\ evfVideoUrl' = ""
    /\ ~(evfVideoFile /\ evfVideoUrl = "")
    /\ UNCHANGED <<eventFields, evfNextId, evfForm, evfLoading, evfError, evfAthleteTokens,
                   evfAthleteTokenId, evfSelectedAthlete, evfText, evfType, evfDay,
                   evfContestEndDate, evfLiveStreamUrl, evfPc, evfUploaded>>
    /\ UNCHANGED <<evVars, evfEnv>>

\* the Video URL text field, rendered for type 'video' and disabled while a
\* file is selected
EvfSetVideoUrl(url) ==
    /\ EventFormShown
    /\ evfType = "video"
    /\ ~evfVideoFile
    /\ evfVideoUrl # url
    /\ evfVideoUrl' = url
    /\ UNCHANGED <<eventFields, evfNextId, evfForm, evfLoading, evfError, evfAthleteTokens,
                   evfAthleteTokenId, evfSelectedAthlete, evfText, evfType, evfDay,
                   evfContestEndDate, evfVideoFile, evfLiveStreamUrl, evfPc, evfUploaded>>
    /\ UNCHANGED <<evVars, evfEnv>>

\* the Live Stream URL text field, rendered for type 'live_stream'
EvfSetLiveStreamUrl(url) ==
    /\ EventFormShown
    /\ evfType = "live_stream"
    /\ evfLiveStreamUrl # url
    /\ evfLiveStreamUrl' = url
    /\ UNCHANGED <<eventFields, evfNextId, evfForm, evfLoading, evfError, evfAthleteTokens,
                   evfAthleteTokenId, evfSelectedAthlete, evfText, evfType, evfDay,
                   evfContestEndDate, evfVideoUrl, evfVideoFile, evfPc, evfUploaded>>
    /\ UNCHANGED <<evVars, evfEnv>>

\* ---- submit ----
\* validationSchema accepts formik's values.  The day is declared
\* Yup.date().required().nullable(): whether null passes depends on the
\* version of Yup, so nullDayAccepted says what this build does; '' is not a
\* date.  video_url is required for type 'video' in EditEvent and optional
\* in CreateEvent.
validationSchema(nullDayAccepted) ==
    /\ evfAthleteTokenId # 0
    /\ evfText
    /\ evfType \in EventTypes
    /\ \/ evfDay.kind \in {"date", "string"}
       \/ evfDay.kind = "null" /\ nullDayAccepted
    /\ evfType = "contest" => evfContestEndDate # NoDate
    /\ (evfForm = "edit" /\ evfType = "video") => evfVideoUrl # ""
    /\ evfType = "live_stream" => evfLiveStreamUrl # ""

\* onSubmit after the upload, up to its next await: CreateEvent returns when
\* the day is null; date.toLocaleDateString throws, and the catch block
\* runs, when the day is not a Date object; otherwise the write is issued
AfterUpload ==
    IF evfDay.kind = "date" THEN "write" ELSE "form"

\* formik.handleSubmit: the values are validated and onSubmit runs when the
\* schema accepts them, up to its first await
EvfSubmit(nullDayAccepted) ==
    /\ EventFormShown
    /\ evfForm = "create" => evfNextId < FirstNewEvent + MaxNewEvents
    /\ validationSchema(nullDayAccepted)
    /\ evfPc' = IF evfType = "video" /\ evfVideoFile THEN "upload" ELSE AfterUpload
    /\ evfPc' # "form"
    /\ UNCHANGED <<eventFields, evfNextId, evfForm, evfLoading, evfError, evfAthleteTokens,
                   evfAthleteTokenId, evfSelectedAthlete, evfText, evfType, evfDay,
                   evfContestEndDate, evfVideoUrl, evfVideoFile, evfLiveStreamUrl,
                   evfUploaded>>
    /\ UNCHANGED <<evVars, evfEnv>>

\* supabase.storage.from('athletes').upload settles
UploadSettles(ok) ==
    /\ evfForm \in {"create", "edit"}
    /\ evfPc = "upload"
    /\ evfPc' = IF ok THEN AfterUpload ELSE "form"
    /\ evfUploaded' = (ok /\ AfterUpload = "write")
    /\ UNCHANGED <<eventFields, evfNextId, evfForm, evfLoading, evfError, evfAthleteTokens,
                   evfAthleteTokenId, evfSelectedAthlete, evfText, evfType, evfDay,
                   evfContestEndDate, evfVideoUrl, evfVideoFile, evfLiveStreamUrl>>
    /\ UNCHANGED <<evVars, evfEnv>>

\* eventData, the row onSubmit writes
eventData ==
    [athelete_token_id |-> evfAthleteTokenId,
     type |-> evfType,
     day |-> evfDay.date,
     contest_end_date |-> IF evfType = "contest" THEN evfContestEndDate ELSE NoDate,
     video_url |-> IF evfType = "video"
                   THEN (IF evfUploaded THEN PublicUrl ELSE evfVideoUrl)
                   ELSE Null,
     live_stream_url |-> IF evfType = "live_stream" THEN evfLiveStreamUrl ELSE Null]

\* CreateEvent: supabase.from('Events').insert([eventData]) settles; on
\* success formik.resetForm(), setVideoFile(null), setSelectedAthlete(null)
CeInsertSettles(ok) ==
    /\ evfForm = "create"
    /\ evfPc = "write"
    /\ evfPc' = "form"
    /\ evfUploaded' = FALSE
    /\ IF ok
       THEN /\ eventsTable' = eventsTable \cup {evfNextId}
            /\ eventFields' = eventFields @@ (evfNextId :> eventData)
            /\ evfNextId' = evfNextId + 1
            /\ evfAthleteTokenId' = 0
            /\ evfSelectedAthlete' = 0
            /\ evfText' = FALSE
            /\ evfType' = ""
            /\ evfDay' = NullDay
            /\ evfContestEndDate' = NoDate
            /\ evfVideoUrl' = ""
            /\ evfVideoFile' = FALSE
            /\ evfLiveStreamUrl' = ""
       ELSE UNCHANGED <<eventsTable, eventFields, evfNextId, evfAthleteTokenId,
                        evfSelectedAthlete, evfText, evfType, evfDay, evfContestEndDate,
                        evfVideoUrl, evfVideoFile, evfLiveStreamUrl>>
    /\ UNCHANGED <<evfForm, evfLoading, evfError, evfAthleteTokens>>
    /\ UNCHANGED <<evMounted, evEvents, evLoading, evError, evRequests, evSelectedEventId, evViewVars>>
    /\ UNCHANGED evfEnv

\* EditEvent: supabase.from('Events').update(eventData).eq('id', eventId)
\* settles; on success onClose()
EeUpdateSettles(ok) ==
    /\ evfForm = "edit"
    /\ evfPc = "write"
    /\ IF ok
       THEN /\ eventFields' = IF evSelectedEventId \in DOMAIN eventFields
                              THEN [eventFields EXCEPT ![evSelectedEventId] = eventData]
                              ELSE eventFields
            /\ OnClose
       ELSE /\ evfPc' = "form"
            /\ evfUploaded' = FALSE
            /\ UNCHANGED <<eventFields, evfForm, evfLoading, evfError, evfAthleteTokens,
                           evfAthleteTokenId, evfSelectedAthlete, evfText, evfType, evfDay,
                           evfContestEndDate, evfVideoUrl, evfVideoFile, evfLiveStreamUrl>>
            /\ UNCHANGED evVars
    /\ UNCHANGED evfNextId
    /\ UNCHANGED evfEnv



(***************************************************************************)
(* SpecMapView: the life of a MapView from a page load on.                 *)
(***************************************************************************)
InitMapView ==
    /\ SomeBackend
    /\ windowGoogle \in BOOLEAN
    /\ mvMounted = FALSE
    /\ scriptPending = FALSE
    /\ initEffectPending = FALSE
    /\ MapViewInitialState
    /\ GetDataIdle
    /\ usersTable = {}
    /\ UserListIdle
    /\ RestUnused
    /\ AdminIdle
    /\ now = FirstInstant
    /\ OtherPagesUnused

NextMapView ==
    \/ MvMount
    \/ ScriptLoads
    \/ InitMapEffect
    \/ \E t \in KeyStrokes(searchTerm) : SetSearchTerm(t)
    \/ MvUnmount

\* React runs a scheduled effect, and a script that is loading loads; the
\* user is under no obligation
SpecMapView ==
    /\ InitMapView
    /\ [][NextMapView]_vars
    /\ WF_vars(MvMount)
    /\ WF_vars(ScriptLoads)
    /\ WF_vars(InitMapEffect)

(***************************************************************************)
(* SpecGetData: getData invoked for any center, over any backend.          *)
(***************************************************************************)
\* a caller invokes getData(c)
GetDataCall(c) ==
    /\ gdPc \in {"idle", "done", "failed"}
    /\ GetDataStart(c)
    /\ UNCHANGED <<mvEnv, mvVars>>

InitGetData ==
    /\ SomeBackend
    /\ windowGoogle = TRUE
    /\ mvMounted = TRUE
    /\ scriptPending = FALSE
    /\ initEffectPending = FALSE
    /\ MapViewInitialState
    /\ GetDataIdle
    /\ usersTable = {}
    /\ UserListIdle
    /\ RestUnused
    /\ AdminIdle
    /\ now = FirstInstant
    /\ OtherPagesUnused

NextGetData ==
    \/ \E c \in Centers : GetDataCall(c)
    \/ \E i \in 1..Len(locQueries), ok \in BOOLEAN : LocationQuerySettles(i, ok)
    \/ FilterAndFetchCompanies
    \/ \E i \in 1..Len(companyFetches), ok \in BOOLEAN : CompanyFetchSettles(i, ok)
    \/ JoinAndFetchJobs
    \/ \E i \in 1..Len(jobQueries), ok \in BOOLEAN : JobQuerySettles(i, ok)
    \/ SetResults
    \/ GetDataCatch

SpecGetData == InitGetData /\ [][NextGetData]_vars


(***************************************************************************)
(* SpecUserSearch: the Supabase UserList over any users table.             *)
(***************************************************************************)
MapViewUnused ==
    /\ companyProfiles = {}
    /\ locations = {}
    /\ users = {}
    /\ mapData = {}
    /\ nextId = 100
    /\ windowGoogle = FALSE
    /\ mvMounted = FALSE
    /\ scriptPending = FALSE
    /\ initEffectPending = FALSE
    /\ MapViewInitialState
    /\ GetDataIdle

InitUserSearch ==
    /\ MapViewUnused
    /\ usersTable \in SUBSET UserRows
    /\ UserListIdle
    /\ RestUnused
    /\ AdminIdle
    /\ now = FirstInstant
    /\ OtherPagesUnused

NextUserSearch ==
    \/ UsMount
    \/ \E t \in SearchValues : UsSetSearch(t)
    \/ \E i \in 1..Len(usRequests), ok \in BOOLEAN : UsResponse(i, ok)

SpecUserSearch == InitUserSearch /\ [][NextUserSearch]_vars


(***************************************************************************)
(* SpecAdmin: one admin working through the Firestore pages, from a        *)
(* backend that holds one company with a location and a job posting.       *)
(***************************************************************************)
SeedCompany ==
    [id |-> 1, companyName |-> "Acme",
     referralCode |-> generateReferralCode([i \in 1..ReferralCodeLength |-> Len(chars) - 1]),
     createdAt |-> FirstInstant, updatedAt |-> FirstInstant]

InitAdmin ==
    /\ companyProfiles = {SeedCompany}
    /\ locations = {LocationDoc(11, 1, 30)}
    /\ users = {}
    /\ mapData = {[id |-> 21, companyProfileId |-> 1, locationId |-> 11, userId |-> 0]}
    /\ nextId = FirstId
    /\ windowGoogle = FALSE
    /\ mvMounted = FALSE
    /\ scriptPending = FALSE
    /\ initEffectPending = FALSE
    /\ MapViewInitialState
    /\ GetDataIdle
    /\ usersTable = {}
    /\ UserListIdle
    /\ RestUnused
    /\ AdminIdle
    /\ now = FirstInstant
    /\ OtherPagesUnused

NextAdmin ==
    \/ OpenCompanyList
    \/ \E ok \in BOOLEAN : FetchCompaniesSettles(ok)
    \/ \E id \in clCompanies : HandleDeleteCompany(id)
    \/ \E d \in clDeletes, ok \in BOOLEAN : DeleteCompanySettles(d, ok)
    \/ OpenCreateCompany
    \/ \E id \in CompanyIds, okDoc, okLocs \in BOOLEAN : OpenEditCompany(id, okDoc, okLocs)
    \/ \E nm \in FormNames : CcSetName(nm)
    \/ \E b \in BOOLEAN : CcSetAddress(b)
    \/ CcSetCoords
    \/ \E run \in RandomRuns : CcSubmit(run)
    \/ \E ok \in BOOLEAN : CcCompanyWritten(ok)
    \/ \E ok \in BOOLEAN : CcLocationWritten(ok)
    \/ \E ok \in BOOLEAN : CcUpdateWritten(ok)
    \/ \E ok \in BOOLEAN : CcUpdateLocationWritten(ok)
    \/ \E l \in ccExistingLocations, ok \in BOOLEAN : CcDeleteLocation(l, ok)
    \/ \E ok \in BOOLEAN : OpenLocationList(ok)
    \/ \E loc \in llLocations, ok \in BOOLEAN : LlDeleteLocation(loc, ok)
    \/ \E ok \in BOOLEAN : OpenCreateLocation(ok)
    \/ \E c \in clocCompanies \cup {0}, a, ok \in BOOLEAN : ClocSubmit(c, a, ok)
    \/ \E ok \in BOOLEAN : OpenUserList(ok)
    \/ \E u \in ulUsers : UlMenuOpen(u)
    \/ \E ok \in BOOLEAN : UlDeleteConfirm(ok)
    \/ \E c \in ulCompanies, ok \in BOOLEAN : UlAssignCompany(c.id, ok)
    \/ \E ok \in BOOLEAN : OpenCreateUser(ok)
    \/ \E v, a, d \in BOOLEAN, c \in cuCompanyProfiles \cup {0} : CuSubmit(v, c, a, d)
    \/ OpenJobsList
    \/ \E ok \in BOOLEAN, failed \in SUBSET Lookups : FetchJobsSettles(ok, failed)
    \/ \E j \in jlJobs : JlMenuOpen(j)
    \/ \E ok \in BOOLEAN : JlDeleteConfirm(ok)

SpecAdmin == InitAdmin /\ [][NextAdmin]_vars


(***************************************************************************)
(* SpecFetch: the two list pages whose mount reads the backend, EventList  *)
(* and CompanyList, with every read able to fail.                          *)
(***************************************************************************)
InitFetch ==
    /\ companyProfiles = {SeedCompany}
    /\ locations = {LocationDoc(11, 1, 30)}
    /\ users = {}
    /\ mapData = {}
    /\ nextId = FirstId
    /\ windowGoogle = FALSE
    /\ mvMounted = FALSE
    /\ scriptPending = FALSE
    /\ initEffectPending = FALSE
    /\ MapViewInitialState
    /\ GetDataIdle
    /\ usersTable = {}
    /\ UserListIdle
    /\ RestUnused
    /\ AdminIdle
    /\ now = FirstInstant
    /\ eventsTable \in SUBSET EventIds
    /\ EventListIdle
    /\ ftos = {}
    /\ ftoNextId = 1
    /\ ftoPage = "none"
    /\ flFtos = {}
    /\ CreateFtoInitialState
    /\ EditFtoClosed

NextFetch ==
    \/ EvMount
    \/ \E i \in 1..Len(evRequests), ok \in BOOLEAN : FetchEventsSettles(i, ok)
    \/ \E id \in evEvents, ok \in BOOLEAN : EvHandleDelete(id, ok)
    \/ \E id \in evEvents : EvHandleEdit(id)
    \/ EvHandleEditClose
    \/ EvUnmount
    \/ OpenCompanyList
    \/ \E ok \in BOOLEAN : FetchCompaniesSettles(ok)
    \/ \E id \in clCompanies : HandleDeleteCompany(id)
    \/ \E d \in clDeletes, ok \in BOOLEAN : DeleteCompanySettles(d, ok)
    \/ OpenCreateCompany

SpecFetch == InitFetch /\ [][NextFetch]_vars


(***************************************************************************)
(* SpecFto: one admin using FTOList / EditFTO and CreateFTO on a table     *)
(* that starts with at most one active FTO.                                *)
(***************************************************************************)
FtoUniverse == {[id |-> 1, active |-> TRUE], [id |-> 1, active |-> FALSE],
                [id |-> 2, active |-> FALSE]}

InitFto ==
    /\ companyProfiles = {}
    /\ locations = {}
    /\ users = {}
    /\ mapData = {}
    /\ nextId = FirstId
    /\ windowGoogle = FALSE
    /\ mvMounted = FALSE
    /\ scriptPending = FALSE
    /\ initEffectPending = FALSE
    /\ MapViewInitialState
    /\ GetDataIdle
    /\ usersTable = {}
    /\ UserListIdle
    /\ RestUnused
    /\ AdminIdle
    /\ now = FirstInstant
    /\ eventsTable = {}
    /\ EventListIdle
    /\ ftos \in {t \in SUBSET FtoUniverse :
                   \A f, g \in t : f.id = g.id => f = g}
    /\ ftoNextId = FirstNewFto
    /\ ftoPage = "none"
    /\ flFtos = {}
    /\ CreateFtoInitialState
    /\ EditFtoClosed

NextFto ==
    \/ \E ok \in BOOLEAN : FlMount(ok)
    \/ \E id \in flFtos, ok \in BOOLEAN : FlHandleDelete(id, ok)
    \/ \E id \in flFtos : FlHandleEdit(id)
    \/ \E ok \in BOOLEAN : FetchFTODataSettles(ok)
    \/ \E ok \in BOOLEAN : CheckOtherActiveFTOsSettles(ok)
    \/ \E b \in BOOLEAN : EfSwitchActive(b)
    \/ EfHandleSubmit
    \/ \E ok \in BOOLEAN : EfDeactivateSettles(ok)
    \/ \E ok, okList \in BOOLEAN : EfUpdateSettles(ok, okList)
    \/ EfClose
    \/ CfMount
    \/ \E ok \in BOOLEAN : CheckActiveFTOSettles(ok)
    \/ \E b \in BOOLEAN : CfHandleActiveChange(b)
    \/ CfOnSubmit
    \/ \E ok \in BOOLEAN : CfDeactivateSettles(ok)
    \/ \E ok \in BOOLEAN : CfUploadsSettle(ok)
    \/ \E ok \in BOOLEAN : CfInsertSettles(ok)

SpecFto == InitFto /\ [][NextFto]_vars


(***************************************************************************)
(* SpecEditCompany: CreateCompany in both modes while time passes, from a  *)
(* backend that holds one company (stored with or without createdAt) and   *)
(* one location.                                                           *)
(***************************************************************************)
\* time passes: the next new Date() returns a later instant
Tick ==
    /\ now < MaxInstant
    /\ now' = now + 1
    /\ UNCHANGED <<dbVars, mvVars, mvData, gdVars, usVars, adVars, evVars, ftoVars,
                   restVars>>

InitEditCompany ==
    /\ companyProfiles \in {{SeedCompany}, {[SeedCompany EXCEPT !.createdAt = 0]}}
    /\ locations = {LocationDoc(11, 1, 30)}
    /\ users = {}
    /\ mapData = {}
    /\ nextId = FirstId
    /\ now = FirstInstant + 1
    /\ windowGoogle = FALSE
    /\ mvMounted = FALSE
    /\ scriptPending = FALSE
    /\ initEffectPending = FALSE
    /\ MapViewInitialState
    /\ GetDataIdle
    /\ usersTable = {}
    /\ UserListIdle
    /\ RestUnused
    /\ page = "analytics"
    /\ CreateCompanyIdle
    /\ ListsIdle
    /\ OtherPagesUnused

NextEditCompany ==
    \/ Tick
    \/ OpenCreateCompany
    \/ \E id \in CompanyIds, okDoc, okLocs \in BOOLEAN : OpenEditCompany(id, okDoc, okLocs)
    \/ \E nm \in FormNames : CcSetName(nm)
    \/ \E b \in BOOLEAN : CcSetAddress(b)
    \/ CcSetCoords
    \/ \E run \in RandomRuns : CcSubmit(run)
    \/ \E ok \in BOOLEAN : CcCompanyWritten(ok)
    \/ \E ok \in BOOLEAN : CcLocationWritten(ok)
    \/ \E ok \in BOOLEAN : CcUpdateWritten(ok)
    \/ \E ok \in BOOLEAN : CcUpdateLocationWritten(ok)
    \/ \E l \in ccExistingLocations, ok \in BOOLEAN : CcDeleteLocation(l, ok)

SpecEditCompany == InitEditCompany /\ [][NextEditCompany]_vars


(***************************************************************************)
(* SpecAutocomplete: one AddressAutocomplete, with or without the Google   *)
(* Maps API loaded.                                                        *)
(***************************************************************************)
InitAutocomplete ==
    /\ companyProfiles = {}
    /\ locations = {}
    /\ users = {}
    /\ mapData = {}
    /\ nextId = FirstId
    /\ now = FirstInstant
    /\ windowGoogle \in BOOLEAN
    /\ mvMounted = FALSE
    /\ scriptPending = FALSE
    /\ initEffectPending = FALSE
    /\ MapViewInitialState
    /\ GetDataIdle
    /\ usersTable = {}
    /\ UserListIdle
    /\ RestUnused
    /\ page = "analytics"
    /\ CreateCompanyIdle
    /\ ListsIdle
    /\ OtherPagesUnused

NextAutocomplete ==
    \/ AaMount
    \/ \E q \in AaKeyStrokes : AaSetQuery(q)
    \/ AaTick
    \/ AaTimerFires
    \/ \E i \in 1..Len(aaRequests), st \in {"OK", "ZERO_RESULTS", "ERROR"} :
          AaPredictionsArrive(i, st)
    \/ AaSelectAddress
    \/ \E ok \in BOOLEAN : AaGeocodeArrives(ok)
    \/ AaUnmount

SpecAutocomplete == InitAutocomplete /\ [][NextAutocomplete]_vars

(***************************************************************************)
(* SpecUserJoin: the Firestore UserList over any backend of up to two      *)
(* users and three companies, one of them stored with an empty name; a     *)
(* user may name no company or a company that is not stored.               *)
(***************************************************************************)
UserIds == {41, 42}

UserDocUniverse ==
    {[id |-> i, companyProfileId |-> c] : i \in UserIds, c \in {0, 1, 2, 3}}

InitUserJoin ==
    /\ companyProfiles \in SUBSET CompanyUniverse
    /\ locations = {}
    /\ users \in {us \in SUBSET UserDocUniverse :
                    \A u, v \in us : u.id = v.id => u = v}
    /\ mapData = {}
    /\ nextId = FirstId
    /\ now = FirstInstant
    /\ windowGoogle = FALSE
    /\ mvMounted = FALSE
    /\ scriptPending = FALSE
    /\ initEffectPending = FALSE
    /\ MapViewInitialState
    /\ GetDataIdle
    /\ usersTable = {}
    /\ UserListIdle
    /\ RestUnused
    /\ page = "analytics"
    /\ CreateCompanyIdle
    /\ ListsIdle
    /\ OtherPagesUnused

NextUserJoin ==
    \/ \E ok \in BOOLEAN : OpenUserList(ok)
    \/ \E u \in ulUsers : UlMenuOpen(u)
    \/ \E ok \in BOOLEAN : UlDeleteConfirm(ok)
    \/ \E c \in ulCompanies, ok \in BOOLEAN : UlAssignCompany(c.id, ok)

SpecUserJoin == InitUserJoin /\ [][NextUserJoin]_vars



(***************************************************************************)
(* SpecEventForms: one admin on /events (EventList and its EditEvent       *)
(* dialog) and on /events/create (CreateEvent), within one day.  The table *)
(* holds one event row: a video event, or a row written elsewhere that has *)
(* fields of several types filled.  The admin selects the first athlete    *)
(* and picks the last date of the calendar.                                *)
(***************************************************************************)
SeedEventRows ==
    {[athelete_token_id |-> 51, type |-> "video", day |-> MaxDate,
      contest_end_date |-> NoDate, video_url |-> TypedUrl, live_stream_url |-> Null],
     [athelete_token_id |-> 52, type |-> "live_stream", day |-> 5,
      contest_end_date |-> MaxDate, video_url |-> TypedUrl,
      live_stream_url |-> TypedUrl]}

\* no event component is mounted and the table holds the rows given
EventPagesIdle(rows) ==
    /\ companyProfiles = {}
    /\ locations = {}
    /\ users = {}
    /\ mapData = {}
    /\ nextId = FirstId
    /\ windowGoogle = FALSE
    /\ mvMounted = FALSE
    /\ scriptPending = FALSE
    /\ initEffectPending = FALSE
    /\ MapViewInitialState
    /\ GetDataIdle
    /\ usersTable = {}
    /\ UserListIdle
    /\ AdminIdle
    /\ AddressAutocompleteIdle
    /\ eventsTable = DOMAIN rows
    /\ eventFields = rows
    /\ evfNextId = FirstNewEvent
    /\ EventFormsIdle
    /\ EventListIdle
    /\ ftos = {}
    /\ ftoNextId = 1
    /\ ftoPage = "none"
    /\ flFtos = {}
    /\ CreateFtoInitialState
    /\ EditFtoClosed

InitEventForms ==
    /\ now = FirstInstant + 1
    /\ \E row \in SeedEventRows : EventPagesIdle(31 :> row)

NextEventForms ==
    \/ evfForm = "none" /\ EvMount
    \/ \E i \in 1..Len(evRequests) : FetchEventsSettles(i, TRUE)
    \/ \E id \in evEvents : evfForm = "none" /\ EvHandleEdit(id)
    \/ \E athletes \in {{}, AthleteTokens} : EeMount(athletes)
    \/ \E ok \in BOOLEAN : FetchEventDetailsSettles(ok)
    \/ EeCancel
    \/ evfForm = "none" /\ evSelectedEventId = 0 /\ EvUnmount
    \/ \E ok \in BOOLEAN : CeMount(ok)
    \/ CeUnmount
    \/ \E filled \in BOOLEAN : EvfSetText(filled)
    \/ handleAthleteChange(51)
    \/ EvfSetDay(MaxDate)
    \/ \E newType \in EventTypes : handleTypeChange(newType)
    \/ \E date \in ContestEndChoices : EvfSetContestEndDate(date)
    \/ handleVideoChange
    \/ \E url \in {"", TypedUrl} : EvfSetVideoUrl(url)
    \/ \E url \in {"", TypedUrl} : EvfSetLiveStreamUrl(url)
    \/ \E nullDayAccepted \in BOOLEAN : EvfSubmit(nullDayAccepted)
    \/ \E ok \in BOOLEAN : UploadSettles(ok)
    \/ \E ok \in BOOLEAN : CeInsertSettles(ok)
    \/ \E ok \in BOOLEAN : EeUpdateSettles(ok)

SpecEventForms == InitEventForms /\ [][NextEventForms]_vars


(***************************************************************************)
(* SpecCreateEvent: CreateEvent alone, while the days pass, with every     *)
(* athlete and every date the admin may try.                               *)
(***************************************************************************)
InitCreateEvent ==
    /\ now = FirstInstant
    /\ EventPagesIdle(<<>>)

NextCreateEvent ==
    \/ Tick
    \/ \E ok \in BOOLEAN : CeMount(ok)
    \/ CeUnmount
    \/ \E filled \in BOOLEAN : EvfSetText(filled)
    \/ \E a \in AthleteTokens : handleAthleteChange(a.id)
    \/ \E date \in DateChoices : EvfSetDay(date)
    \/ \E newType \in EventTypes : handleTypeChange(newType)
    \/ \E date \in ContestEndChoices : EvfSetContestEndDate(date)
    \/ handleVideoChange
    \/ \E url \in {"", TypedUrl} : EvfSetVideoUrl(url)
    \/ \E url \in {"", TypedUrl} : EvfSetLiveStreamUrl(url)
    \/ \E nullDayAccepted \in BOOLEAN : EvfSubmit(nullDayAccepted)
    \/ \E ok \in BOOLEAN : UploadSettles(ok)
    \/ \E ok \in BOOLEAN : CeInsertSettles(ok)

SpecCreateEvent == InitCreateEvent /\ [][NextCreateEvent]_vars



(***************************************************************************)
(* SpecJobsList: JobsList over any backend of up to two companies (one     *)
(* stored with an empty name), two locations, one user and two jobs, with  *)
(* any of its reads failing.                                               *)
(***************************************************************************)
JobDocUniverse ==
    {[id |-> 21, companyProfileId |-> 1, locationId |-> 11, userId |-> 41],
     [id |-> 22, companyProfileId |-> 2, locationId |-> 13, userId |-> 41],
     [id |-> 22, companyProfileId |-> 0, locationId |-> 13, userId |-> 0]}

InitJobsList ==
    /\ companyProfiles \in SUBSET {c \in CompanyUniverse : c.id \in {1, 2}}
    /\ locations \in SUBSET {LocationDoc(11, 1, 30), LocationDoc(13, 2, 50)}
    /\ users \in SUBSET {[id |-> 41, companyProfileId |-> 0]}
    /\ mapData \in {js \in SUBSET JobDocUniverse : \A j, k \in js : j.id = k.id => j = k}
    /\ nextId = FirstId
    /\ now = FirstInstant
    /\ windowGoogle = FALSE
    /\ mvMounted = FALSE
    /\ scriptPending = FALSE
    /\ initEffectPending = FALSE
    /\ MapViewInitialState
    /\ GetDataIdle
    /\ usersTable = {}
    /\ UserListIdle
    /\ RestUnused
    /\ page = "analytics"
    /\ CreateCompanyIdle
    /\ ListsIdle
    /\ OtherPagesUnused

NextJobsList ==
    \/ OpenJobsList
    \/ \E ok \in BOOLEAN, failed \in SUBSET Lookups : FetchJobsSettles(ok, failed)
    \/ \E j \in jlJobs : JlMenuOpen(j)
    \/ \E ok \in BOOLEAN : JlDeleteConfirm(ok)
    \/ OpenCompanyList

SpecJobsList == InitJobsList /\ [][NextJobsList]_vars



(***************************************************************************)
(* SpecPagination: one admin using the search box, the filters, the        *)
(* pagination bar and the delete buttons of EventList on a table of        *)
(* MaxEvents rows.                                                         *)
(***************************************************************************)
InitPagination ==
    /\ companyProfiles = {}
    /\ locations = {}
    /\ users = {}
    /\ mapData = {}
    /\ nextId = FirstId
    /\ windowGoogle = FALSE
    /\ mvMounted = FALSE
    /\ scriptPending = FALSE
    /\ initEffectPending = FALSE
    /\ MapViewInitialState
    /\ GetDataIdle
    /\ usersTable = {}
    /\ UserListIdle
    /\ RestUnused
    /\ AdminIdle
    /\ now = FirstInstant
    /\ eventsTable = EventTableIds
    /\ EventListIdle
    /\ ftos = {}
    /\ ftoNextId = 1
    /\ ftoPage = "none"
    /\ flFtos = {}
    /\ CreateFtoInitialState
    /\ EditFtoClosed

NextPagination ==
    \/ EvMount
    \/ \E i \in 1..Len(evRequests), ok \in BOOLEAN : FetchEventsSettles(i, ok)
    \/ \E t \in SearchValues : EvSetSearchTerm(t)
    \/ \E filterName \in DOMAIN FilterValues :
         \E value \in FilterValues[filterName] : handleFilterChange(filterName, value)
    \/ \E newPage \in 0..MaxEvents : EvChangePage(newPage)
    \/ \E n \in RowsPerPageOptions : EvChangeRowsPerPage(n)
    \/ \E id \in evEvents, ok \in BOOLEAN : EvHandleDelete(id, ok)
    \/ EvUnmount

SpecPagination == InitPagination /\ [][NextPagination]_vars


(***************************************************************************)
(* Properties of MapView.                                                  *)
(***************************************************************************)
\* C1: once the Google Maps script has loaded (mapLoaded is true) in a
\* mounted MapView, the map is created and loading and isLoading both become
\* false, so that the map and the location list are shown.
C1_MapEventuallyShown ==
    (mvMounted /\ mapLoaded) ~>
        (~mvMounted \/ (googleMapRef /\ ~loading /\ ~isLoading))

\* the distance of a position to the center of the running getData, in metres
MetresFromCenter(p) == (IF p < center THEN center - p ELSE p - center) * 1000

\* the documents the location queries of the running getData returned
ReturnedDocs == UNION {Range(locQueries[i].docs) : i \in 1..Len(locQueries)}

\* C2: every entry getData puts into displayLocations lies within 50 km of
\* the center it was called for, and a location that a bound query returned
\* from farther away is not displayed.
C2_DisplayedWithinRadius ==
    gdPc = "done" =>
        /\ \A e \in Range(displayLocations) : MetresFromCenter(e.pos) <= 50000
        /\ \A d \in ReturnedDocs :
              MetresFromCenter(d.pos) > 50000 =>
                 ~\E e \in Range(displayLocations) : e.locationId = d.id

\* C2 witness: getData has displayed something although a query returned a
\* location beyond the radius.
C2_Witness ==
    /\ gdPc = "done"
    /\ displayLocations # <<>>
    /\ \E d \in ReturnedDocs : MetresFromCenter(d.pos) > 50000

\* C3: getData issues one range query per element of
\* geohashQueryBounds(center, radius), in order, from the bound's start to
\* its end, and the distance filter runs only after every one of them has
\* delivered its snapshot.
C3_OneQueryPerBoundThenFilter ==
    LET bounds == geohashQueryBounds(center, 50000)
        filtered == gdPc \in {"awaitCompanies", "awaitJobs", "done"}
                       \/ matchedPairs # <<>>
    IN /\ gdPc # "idle" =>
            /\ Len(locQueries) = Len(bounds)
            /\ \A i \in 1..Len(bounds) : locQueries[i].bound = bounds[i]
       /\ filtered =>
            \A i \in 1..Len(locQueries) :
                /\ locQueries[i].status = "ok"
                /\ Range(locQueries[i].docs) =
                      {d \in locations : /\ bounds[i][1] <= d.geoHash
                                         /\ d.geoHash <= bounds[i][2]}

\* C3 witness: the filter has run over the snapshots of several queries and
\* kept something.
C3_Witness ==
    /\ gdPc = "awaitCompanies"
    /\ Len(locQueries) >= 2
    /\ matchedPairs # <<>>

\* the locations within the radius of the center of the running getData
PassedFilter == {d \in locations : MetresFromCenter(d.pos) <= 50000}

\* C4: a getData that ran to its end fetched the company profile once per
\* distinct parent company of the locations that passed the distance
\* filter, and displays exactly the locations that passed it and whose
\* parent company exists, under that company's name ('Unnamed Company' for
\* an empty one).
C4_CompanyJoin ==
    gdPc = "done" =>
        /\ Range(companyFetches) \subseteq
              [id : {d.companyId : d \in PassedFilter}, status : {"ok"},
               exists : BOOLEAN, companyName : {c.companyName : c \in CompanyUniverse}]
        /\ {f.id : f \in Range(companyFetches)} = {d.companyId : d \in PassedFilter}
        /\ Len(companyFetches) = Cardinality({d.companyId : d \in PassedFilter})
        /\ {e.id : e \in Range(displayLocations)} =
              {<<d.companyId, d.id>> : d \in
                  {x \in PassedFilter : \E c \in companyProfiles : c.id = x.companyId}}
        /\ Len(displayLocations) =
              Cardinality({e.id : e \in Range(displayLocations)})
        /\ \A e \in Range(displayLocations) :
              \E c \in companyProfiles :
                 /\ c.id = e.companyId
                 /\ e.companyName =
                       (IF c.companyName = "" THEN "Unnamed Company" ELSE c.companyName)

\* C4 witness: getData ended with two matched locations of one company and a
\* matched location whose company profile does not exist.
C4_Witness ==
    /\ gdPc = "done"
    /\ Len(uniqueCompanyIds) < Len(matchedPairs)
    /\ Len(displayLocations) < Len(matchedPairs)
    /\ \E e \in Range(displayLocations) : e.companyName = "Unnamed Company"

(***************************************************************************)
(* Properties of the Supabase UserList.                                    *)
(***************************************************************************)
\* C5: every change of the search term starts a fetch of its own (the last
\* request is the one for the current term), no fetch is cancelled, and the
\* responses are applied in arrival order: users is the result of the
\* response that arrived last, whatever term it was requested for.
C5_ResponsesAppliedInArrivalOrder ==
    /\ usMounted =>
          /\ usRequests # <<>>
          /\ usRequests[Len(usRequests)].term = usSearch
    /\ IF \E i \in 1..Len(usRequests) : usRequests[i].status = "ok"
       THEN /\ usLastData \in 1..Len(usRequests)
            /\ usRequests[usLastData].status = "ok"
            /\ usUsers = UsersQuery(usRequests[usLastData].term)
       ELSE usLastData = 0 /\ usUsers = <<>>

\* C5 witness: the term went from s1 to s2 while the fetch for s1 was
\* pending, both responses have arrived, and the list shown is the result
\* for s1, which differs from the result for s2.
C5_Witness ==
    /\ Len(usRequests) >= 2
    /\ \A i \in 1..Len(usRequests) : usRequests[i].status = "ok"
    /\ usLastData = Len(usRequests) - 1
    /\ usRequests[Len(usRequests)].term = usSearch
    /\ usUsers # UsersQuery(usSearch)

(***************************************************************************)
(* Properties of the Firestore admin pages, under SpecAdmin.               *)
(***************************************************************************)

\* C6: a reference, when present, points to an existing document: the
\* parent company profile of every location document exists, and every
\* user's companyProfileId that is not null names an existing company profile
C6_ReferencesPointToExistingDocuments ==
    /\ \A l \in locations : l.companyId \in CompanyIds
    /\ \A u \in users : u.companyProfileId # 0 => u.companyProfileId \in CompanyIds

\* C8: in create mode the company profile is written first and its location
\* second; when the location write fails the company profile stays, success
\* stays false, the error is shown and the form stays in create mode; a
\* resubmit adds one more company profile that carries the referral code
\* generated by that submit
C8_NoPartialFailureRecovery ==
    /\ [][(page = "createCompany" /\ locations' # locations)
            => (ccPc = "addLocation" /\ ccCompanyId \in CompanyIds)]_vars
    /\ [][(ccPc = "addLocation" /\ ~ccSuccess')
            => /\ companyProfiles' = companyProfiles
               /\ ccCompanyId \in CompanyIds
               /\ locations' = locations
               /\ ccError'
               /\ ccExistingProfile' = 0
               /\ FormShown']_vars
    /\ [][(ccPc = "idle" /\ ccPc' = "addCompany")
            => \E run \in RandomRuns : ccNewCode' = generateReferralCode(run)]_vars
    /\ [][(ccPc = "addCompany" /\ ccPc' = "addLocation")
            => /\ ccCompanyId' \notin CompanyIds
               /\ companyProfiles' = companyProfiles \cup
                     {[id |-> ccCompanyId', companyName |-> ccName,
                       referralCode |-> ccNewCode,
                       createdAt |-> now, updatedAt |-> now]}]_vars

\* the resubmit after a failed location write has written a second company
\* profile while the first one is still there without a location
C8_Witness ==
    /\ page = "createCompany"
    /\ ccPc = "addLocation"
    /\ ccError
    /\ \E c \in companyProfiles :
         /\ c.id >= FirstId
         /\ c.id # ccCompanyId
         /\ LocationsOf(c.id) = {}

\* C10: every company profile carries a referral code of 8 characters out
\* of A-Z0-9, and no two company profiles carry the same referral code
C10_ReferralCodesUnique ==
    \A c \in companyProfiles :
      /\ Len(c.referralCode) = 8
      /\ Range(c.referralCode) \subseteq Range(chars)
      /\ \A d \in companyProfiles : d.id # c.id => d.referralCode # c.referralCode

\* C14: in the list pages a delete changes the local list only when the
\* backend delete has succeeded, and then removes exactly the deleted item
\* from the list shown; a failed delete leaves the list as it is
C14_DeleteUpdatesLocalList ==
    /\ [][\A d \in clDeletes :
            /\ DeleteCompanySettles(d, TRUE)
                 => /\ d.id \notin {c.id : c \in companyProfiles'}
                    /\ clCompanies' = clCompanies \ {d.id}
            /\ DeleteCompanySettles(d, FALSE)
                 => /\ clCompanies' = clCompanies
                    /\ companyProfiles' = companyProfiles]_vars
    /\ [][\A loc \in llLocations :
            /\ LlDeleteLocation(loc, TRUE)
                 => /\ \A l \in locations' : l.id # loc.id
                    /\ llLocations' = llLocations \ {loc}
            /\ LlDeleteLocation(loc, FALSE)
                 => (llLocations' = llLocations /\ locations' = locations)]_vars
    /\ [][/\ UlDeleteConfirm(TRUE)
                 => /\ \A u \in users' : u.id # ulSelectedUser
                    /\ ulUsers' = {u \in ulUsers : u.id # ulSelectedUser}
          /\ UlDeleteConfirm(FALSE) => (ulUsers' = ulUsers /\ users' = users)]_vars
    /\ [][/\ JlDeleteConfirm(TRUE)
                 => /\ \A m \in mapData' : m.id # jlSelectedJob
                    /\ {j.id : j \in jlJobs'} = {j.id : j \in jlJobs} \ {jlSelectedJob}
          /\ JlDeleteConfirm(FALSE) => (jlJobs' = jlJobs /\ mapData' = mapData)]_vars

(***************************************************************************)
(* Properties of the list pages' reads, under SpecFetch.                   *)
(***************************************************************************)

\* C7: a read is issued only by a triggering event (the mount, the closing
\* of the edit dialog, the opening of the route), one read per event; a
\* failed read ends in the error banner (EventList) or the console
\* (CompanyList) with loading switched off and nothing issued again
C7_NoRetry ==
    /\ [][Len(evRequests') > Len(evRequests)
            => /\ Len(evRequests') = Len(evRequests) + 1
               /\ \/ ~evMounted /\ evMounted'
                  \/ evSelectedEventId # 0 /\ evSelectedEventId' = 0]_vars
    /\ [][(\E i \in 1..Len(evRequests) :
              /\ evRequests[i] = "pending"
              /\ i \in 1..Len(evRequests')
              /\ evRequests'[i] = "failed")
            => /\ evError'
               /\ ~evLoading'
               /\ Len(evRequests') = Len(evRequests)
               /\ evEvents' = evEvents]_vars
    /\ [][(~clLoading /\ clLoading') => (page # "companies" /\ page' = "companies")]_vars
    /\ [][(clLoading /\ ~clLoading' /\ page' = "companies")
            => clCompanies' \in {{}, CompanyIds}]_vars

\* a read of EventList has failed, the banner is shown, and no read is in flight
C7_Witness ==
    /\ evMounted
    /\ evError
    /\ ~evLoading
    /\ \E i \in 1..Len(evRequests) : evRequests[i] = "failed"
    /\ \A i \in 1..Len(evRequests) : evRequests[i] # "pending"

(***************************************************************************)
(* Properties of the FTO pages, under SpecFto.                             *)
(***************************************************************************)

\* C9: at most one FTO is active, and when a CreateFTO submission or an
\* EditFTO save with active = true succeeds, every other FTO is inactive
\* afterwards
C9_AtMostOneActiveFto ==
    /\ [][(efPc = "update" /\ efFtoId' = 0 /\ efActive)
            => \A f \in ftos' : f.active => f.id = efFtoId]_vars
    /\ [][(cfPc = "insert" /\ ftoNextId' # ftoNextId /\ cfActive)
            => \A f \in ftos' : f.active => f.id = ftoNextId]_vars
    /\ [](Cardinality(ActiveFtos) <= 1)

(***************************************************************************)
(* Properties of CreateCompany, under SpecEditCompany.                     *)
(***************************************************************************)

\* C11: an update through CreateCompany in edit mode never changes the
\* profile's referralCode, keeps its createdAt when one is stored, touches
\* no other company profile, and leaves every existing location document
\* as it is
C11_UpdateKeepsCodeAndCreatedAt ==
    [][ccPc = "updateDoc"
         => /\ \A c \in companyProfiles :
                 \E d \in companyProfiles' :
                    /\ d.id = c.id
                    /\ d.referralCode = c.referralCode
                    /\ c.createdAt # 0 => d.createdAt = c.createdAt
                    /\ c.id # ccExistingProfile => d = c
            /\ {d.id : d \in companyProfiles'} = CompanyIds
            /\ locations' = locations]_vars

\* C12: a submit in create mode without both an address and coordinates
\* writes nothing, sets the error and leaves loading false; a submit in edit
\* mode is never rejected for a missing location: without a location it
\* updates the profile and adds no location document, with a location it
\* adds exactly one location document, under the edited company
C12_LocationRequiredOnlyForNewCompany ==
    /\ [][((\E run \in RandomRuns : CcSubmit(run))
             /\ ccExistingProfile = 0 /\ ~(ccCoordsSet /\ ccAddress))
            => /\ dbVars' = dbVars
               /\ ccError'
               /\ ~ccLoading'
               /\ ccPc' = "idle"]_vars
    /\ [][((\E run \in RandomRuns : CcSubmit(run)) /\ ccExistingProfile # 0)
            => ccPc' = "updateDoc" /\ dbVars' = dbVars]_vars
    /\ [][(ccPc = "updateDoc" /\ companyProfiles' # companyProfiles)
            => /\ locations' = locations
               /\ \E d \in companyProfiles' :
                     d.id = ccExistingProfile /\ d.companyName = ccName /\ d.updatedAt = now
               /\ IF ccCoordsSet /\ ccAddress
                  THEN ccPc' = "addLocationToExisting" /\ ~ccSuccess'
                  ELSE ccPc' = "idle" /\ ccSuccess']_vars
    /\ [][ccPc = "addLocationToExisting"
            => IF ccSuccess'
               THEN \E l \in locations' \ locations :
                       /\ locations' = locations \cup {l}
                       /\ l.companyId = ccExistingProfile
               ELSE locations' = locations]_vars

\* an edit without a location has succeeded: the profile carries the new
\* name and the instant of the update, and the locations are the stored ones
C12_Witness ==
    /\ page = "editCompany"
    /\ ccSuccess
    /\ ~ccCoordsSet
    /\ ccName = "Volt"
    /\ locations = {LocationDoc(11, 1, 30)}
    /\ \E c \in companyProfiles :
          c.id = ccExistingProfile /\ c.companyName = "Volt" /\ c.updatedAt > FirstInstant

(***************************************************************************)
(* Properties of AddressAutocomplete, under SpecAutocomplete.              *)
(***************************************************************************)

\* C13: a prediction request is issued only for the current query, of
\* length at least 3, after it stayed unchanged for 300 ms; every change of
\* the query cancels the pending timer (the new timer, if any, has the full
\* delay ahead) and issues no request itself; a query shorter than 3
\* characters starts no timer and clears the predictions
C13_Debounce ==
    /\ [][(aaMounted /\ Len(aaRequests') > Len(aaRequests))
            => /\ aaRequests' = Append(aaRequests, [input |-> aaQuery, status |-> "pending"])
               /\ aaQuery' = aaQuery
               /\ Len(aaQuery) >= 3
               /\ aaUnchangedFor >= 300
               /\ aaTimer' = -1]_vars
    /\ [][(aaMounted /\ aaMounted' /\ aaQuery' # aaQuery)
            => /\ aaRequests' = aaRequests
               /\ aaTimer' \in {-1, 300}
               /\ Len(aaQuery') < 3 => (aaTimer' = -1 /\ aaPredictions' = <<>>)]_vars

\* a burst of changes has ended in one request, for the last value
C13_Witness ==
    /\ aaMounted
    /\ Len(aaRequests) = 1
    /\ aaRequests[1].input = aaQuery
    /\ Len(aaQuery) = 4
    /\ aaTimer = -1


(***************************************************************************)
(* All-or-nothing update of MapView.getData, under SpecGetData.            *)
(***************************************************************************)
\* C19: getData sets displayLocations and jobs only when all its location
\* queries, company fetches and job queries have succeeded; when any of them
\* fails the two lists keep their previous values and the error is logged;
\* in both cases isLoading and loading end FALSE
C19_AllOrNothing ==
    /\ [][(displayLocations' # displayLocations \/ jobs' # jobs)
            => /\ gdPc = "awaitJobs" /\ gdPc' = "done"
               /\ AllArrived(locQueries)
               /\ AllArrived(companyFetches)
               /\ AllArrived(jobQueries)]_vars
    /\ [][(gdPc # "failed" /\ gdPc' = "failed")
            => /\ SomeFailed(locQueries) \/ SomeFailed(companyFetches)
                                         \/ SomeFailed(jobQueries)
               /\ displayLocations' = displayLocations
               /\ jobs' = jobs
               /\ gdErrors' = Min(gdErrors + 1, MaxErrors)]_vars
    /\ [](gdPc \in {"done", "failed"} => (~isLoading /\ ~loading))

\* a call has failed at its job queries while the map shows the locations
\* and jobs of an earlier call
C19_Witness ==
    /\ gdPc = "failed"
    /\ SomeFailed(jobQueries)
    /\ displayLocations # <<>>
    /\ jobs # <<>>
    /\ ~isLoading
    /\ ~loading


(***************************************************************************)
(* Properties of the Firestore UserList's join, under SpecUserJoin.        *)
(***************************************************************************)
\* C15: after a successful load every row of the user list is a stored user,
\* and its companyName is the name of the fetched company whose id is the
\* user's companyProfileId ('Unnamed Company' when that name is empty) when
\* the user has a companyProfileId and such a company was fetched, and is
\* undefined otherwise
C15_CompanyNameJoined ==
    /\ [](page = "users" =>
            \A u \in ulUsers :
               LET fetched == {c \in ulCompanies : c.id = u.companyProfileId}
               IN  IF u.companyProfileId # 0 /\ fetched # {}
                   THEN \E c \in fetched :
                           u.companyName = IF c.companyName = ""
                                           THEN "Unnamed Company"
                                           ELSE c.companyName
                   ELSE u.companyName = Undefined)
    /\ [][OpenUserList(TRUE)
            => /\ {[id |-> u.id, companyProfileId |-> u.companyProfileId] : u \in ulUsers'}
                    = users
               /\ ulCompanies' = {[id |-> c.id, companyName |-> c.companyName] :
                                    c \in companyProfiles}]_vars

\* a loaded list that shows a user of a company stored with an empty name, a
\* user of a named company, and a user whose company was not fetched
C15_Witness ==
    /\ page = "users"
    /\ \E u, v \in ulUsers :
          /\ u.companyName = "Unnamed Company"
          /\ v.companyProfileId # 0
          /\ v.companyName = Undefined


(***************************************************************************)
(* Properties of the event forms, under SpecEventForms and                 *)
(* SpecCreateEvent.                                                        *)
(***************************************************************************)
\* C16: in EditEvent, for an event of type 'video', once a video file is
\* selected (and athlete, name, description and date are filled) the form
\* can be submitted: the schema accepts the values and onSubmit starts
C16_SelectedFileCanBeSubmitted ==
    (/\ evfForm = "edit"
     /\ EventFormShown
     /\ evfType = "video"
     /\ evfVideoFile
     /\ evfAthleteTokenId # 0
     /\ evfText
     /\ evfDay.kind \in {"date", "string"})
        => ENABLED EvfSubmit(FALSE)

\* a row has the fields of its own type only
Exclusive(row) ==
    /\ row.video_url # Null => row.type = "video"
    /\ row.live_stream_url # Null => row.type = "live_stream"
    /\ row.contest_end_date # NoDate => row.type = "contest"

\* C17: every row CreateEvent or EditEvent writes has video_url only for
\* type 'video', live_stream_url only for 'live_stream' and contest_end_date
\* only for 'contest'; and when the type select of a form changes to a type,
\* the form fields of the other types are cleared (video_url and the
\* selected file, live_stream_url, contest_end_date)
C17_TypeFieldsExclusive ==
    /\ [][\A id \in DOMAIN eventFields' :
            (id \notin DOMAIN eventFields \/ eventFields'[id] # eventFields[id])
               => Exclusive(eventFields'[id])]_vars
    /\ [][(EventFormShown /\ evfForm' = evfForm /\ evfType' # evfType)
            => /\ evfType' # "video" => (evfVideoUrl' = "" /\ ~evfVideoFile')
               /\ evfType' # "live_stream" => evfLiveStreamUrl' = ""
               /\ evfType' # "contest" => evfContestEndDate' = NoDate]_vars

\* CreateEvent has inserted a contest with its end date, and EditEvent has
\* rewritten the row that had fields of several types
C17_Witness ==
    /\ FirstNewEvent \in DOMAIN eventFields
    /\ eventFields[FirstNewEvent].type = "contest"
    /\ eventFields[FirstNewEvent].contest_end_date # NoDate
    /\ eventFields[31] \notin SeedEventRows
    /\ eventFields[31].athelete_token_id = 52

\* the day of the form is null or falls on the weekday of the selected
\* athlete, when that athlete has one
DayOnAthletesWeekday ==
    (evfForm = "create" /\ SelectedDayOfTheWeek # "")
       => \/ evfDay = NullDay
          \/ /\ SelectedDayOfTheWeek \in DOMAIN dayNameToNumber
             /\ getDay(evfDay.date) = dayNameToNumber[SelectedDayOfTheWeek]

\* C18 as stated: in CreateEvent, whenever an athlete with a dayOfTheWeek is
\* selected, the day of the form is null or a date that is not before today
\* and falls on that weekday
C18_DayNotBeforeToday ==
    /\ DayOnAthletesWeekday
    /\ (evfForm = "create" /\ SelectedDayOfTheWeek # "")
          => (evfDay = NullDay \/ evfDay.date >= Today)

\* C18: in CreateEvent, whenever an athlete with a dayOfTheWeek is selected,
\* the day of the form is null or a date on that weekday; a date is not
\* before today at the moment it is picked; changing the selected athlete
\* resets the day to null; and with no athlete, or an athlete without
\* dayOfTheWeek, exactly the past dates are rejected
C18_DayAllowedWhenPicked ==
    /\ []DayOnAthletesWeekday
    /\ [][(evfForm = "create" /\ evfDay' # evfDay /\ evfDay' # NullDay)
            => evfDay'.date >= Today]_vars
    /\ [][(evfForm = "create" /\ evfSelectedAthlete' # evfSelectedAthlete)
            => evfDay' = NullDay]_vars
    /\ []((evfForm = "create" /\ SelectedDayOfTheWeek = "")
            => \A date \in 0..MaxDate : shouldDisableDate(date) <=> date < Today)

\* an athlete available on Mondays is selected and a date is picked for
\* them, on a day later than the one on which the form was opened
C18_Witness ==
    /\ evfForm = "create"
    /\ SelectedDayOfTheWeek = "Monday"
    /\ evfDay.kind = "date"
    /\ now > FirstInstant


(***************************************************************************)
(* Properties of JobsList.fetchJobs, under SpecJobsList.                   *)
(***************************************************************************)
\* the rows shown are those of the jobs stored, and each name of a row is
\* the one of the document the job refers to when that document exists and
\* its lookup did not fail, and undefined otherwise
RowsWithNames(failed) ==
    /\ {j.id : j \in jlJobs'} = {job.id : job \in mapData}
    /\ \A j \in jlJobs' :
         \E job \in mapData :
            /\ job.id = j.id
            /\ IF /\ job.companyProfileId # 0
                  /\ CompanyLookup(job.companyProfileId) \notin failed
                  /\ \E c \in companyProfiles : c.id = job.companyProfileId
               THEN \E c \in companyProfiles :
                       /\ c.id = job.companyProfileId
                       /\ j.companyName = IF c.companyName = "" THEN "Unnamed Company"
                                          ELSE c.companyName
               ELSE j.companyName = Undefined
            /\ IF /\ job.locationId # 0
                  /\ \E l \in locations :
                        /\ l.id = job.locationId
                        /\ l.companyId \in JobCompanyIds
                        /\ LocationLookup(l.companyId, l.id) \notin failed
               THEN j.locationName = ToString(job.locationId)
               ELSE j.locationName = Undefined
            /\ IF /\ job.userId # 0
                  /\ UserLookup(job.userId) \notin failed
                  /\ \E u \in users : u.id = job.userId
               THEN j.userName = ToString(job.userId)
               ELSE j.userName = Undefined

\* C20: when the query of the jobs succeeds, whichever lookups of companies,
\* locations and users fail, loading completes, every job is displayed, the
\* names whose lookup failed are undefined and the other names are kept;
\* when the query of the jobs fails the list stays empty and loading
\* completes
C20_LookupFailuresTolerated ==
    /\ [][\A failed \in SUBSET Lookups :
            FetchJobsSettles(TRUE, failed)
               => (~jlLoading' /\ RowsWithNames(failed))]_vars
    /\ [][\A failed \in SUBSET Lookups :
            FetchJobsSettles(FALSE, failed) => (~jlLoading' /\ jlJobs' = {})]_vars

\* two jobs are displayed after a load in which the lookup of a stored
\* company failed: that job has no company name but has its location and
\* user names, and the other job has its company name
C20_Witness ==
    /\ page = "jobs"
    /\ ~jlLoading
    /\ \E j, k \in jlJobs :
          /\ j.id = 21
          /\ 1 \in CompanyIds
          /\ j.companyName = Undefined
          /\ j.locationName # Undefined
          /\ j.userName # Undefined
          /\ k.id = 22
          /\ k.companyName = "Unnamed Company"

\* C21: once no delete is pending, the list shown contains no item that
\* was deleted in the backend: every company shown by CompanyList after its
\* load is a stored company profile, every user shown by UserList is a
\* stored user and every job shown by JobsList is a stored job
C21_NoDeletedItemShown ==
    /\ (page = "companies" /\ ~clLoading /\ clDeletes = {})
          => clCompanies \subseteq CompanyIds
    /\ page = "users" => {u.id : u \in ulUsers} \subseteq {u.id : u \in users}
    /\ (page = "jobs" /\ ~jlLoading)
          => {j.id : j \in jlJobs} \subseteq {j.id : j \in mapData}

\* C22: a CreateFTO submission with active = true that fails at the uploads
\* or at the insert leaves every FTO that existed before the submit with
\* the active flag it had when the submit started
C22_FailedSubmitChangesNothing ==
    [][(cfActive /\ (CfUploadsSettle(FALSE) \/ CfInsertSettles(FALSE)))
          => ftos' = cfFtosAtSubmit]_vars

\* C23: whenever EventList shows its table and the filtered list is not
\* empty, the current page addresses an existing page of it: page *
\* rowsPerPage is smaller than the length of the filtered list and the
\* displayed slice is not empty
C23_PageInRange ==
    (TableRendered /\ Len(filteredEvents) > 0)
       => /\ evPage * evRowsPerPage < Len(filteredEvents)
          /\ paginatedEvents # <<>>

====
